---- MODULE Spec2Model ----
(***************************************************************************)
(* State-machine model of the translation service (AzureOpenAIService in   *)
(* src/src/services/azureOpenAI.ts) and of the CSV batch translator that   *)
(* drives it (CsvTranslator in src/unnamed/part_004).                      *)
(*                                                                         *)
(* Strings are modelled as sequences of one-character strings where the    *)
(* code looks inside them (trim, toLowerCase, includes, length); a long    *)
(* input text is a short body followed by `pad` filler characters "z",     *)
(* which occur in no dictionary phrase.  Strings the code builds from a    *)
(* template are modelled as records naming the template and its holes.     *)
(* performance.now() is a clock counted in half milliseconds.              *)
(***************************************************************************)
EXTENDS Integers, Sequences, FiniteSets, TLC

\* ------------------------------------------------------------------ bounds
\* largest value of the performance.now() clock, in half milliseconds
MaxClock == 2

\* --------------------------------------------------------- string helpers
IsSpace(c) == c \in {" ", "\t", "\n"}

RECURSIVE TrimLeft(_)
TrimLeft(s) ==
  IF s = <<>> THEN <<>>
  ELSE IF IsSpace(Head(s)) THEN TrimLeft(Tail(s)) ELSE s

RECURSIVE TrimRight(_)
TrimRight(s) ==
  IF s = <<>> THEN <<>>
  ELSE IF IsSpace(s[Len(s)]) THEN TrimRight(SubSeq(s, 1, Len(s) - 1)) ELSE s

\* String.prototype.trim
Trim(s) == TrimRight(TrimLeft(s))

LowerChar(c) ==
  CASE c = "A" -> "a" [] c = "B" -> "b" [] c = "C" -> "c" [] c = "D" -> "d"
    [] c = "E" -> "e" [] c = "F" -> "f" [] c = "G" -> "g" [] c = "H" -> "h"
    [] c = "I" -> "i" [] c = "J" -> "j" [] c = "K" -> "k" [] c = "L" -> "l"
    [] c = "M" -> "m" [] c = "N" -> "n" [] c = "O" -> "o" [] c = "P" -> "p"
    [] c = "Q" -> "q" [] c = "R" -> "r" [] c = "S" -> "s" [] c = "T" -> "t"
    [] c = "U" -> "u" [] c = "V" -> "v" [] c = "W" -> "w" [] c = "X" -> "x"
    [] c = "Y" -> "y" [] c = "Z" -> "z" [] OTHER -> c

\* String.prototype.toLowerCase
ToLowerCase(s) == [i \in 1..Len(s) |-> LowerChar(s[i])]

\* String.prototype.includes
Includes(s, sub) ==
  \E i \in 0..(Len(s) - Len(sub)) : SubSeq(s, i + 1, i + Len(sub)) = sub

\* ------------------------------------------------------------ input texts
\* A text is `body` followed by `pad` filler characters.
TextLength(text) == Len(text.body) + text.pad

EmptyText == [body |-> <<>>, pad |-> 0]

Water == <<"w","a","t","e","r">>
GetStarted == <<"G","e","t"," ","S","t","a","r","t","e","d">>
Hi == <<"H","i">>
FoodYes == <<"F","o","o","d","?"," ","Y","E","S">>
AboutStarted == <<"A","b","o","u","t"," ","u","s",","," ","G","e","t"," ","S","t","a","r","t","e","d">>

\* the texts handed to translateText: short ones, one whose estimate is
\* exactly the limit of the constrained models, and ones just around it
Texts ==
  { [body |-> Water, pad |-> 0],
    [body |-> GetStarted, pad |-> 0],
    [body |-> Hi, pad |-> 9995],
    [body |-> Hi, pad |-> 9998],
    [body |-> Hi, pad |-> 9999] }

\* ----------------------------------------------------------------- models
ChatModels ==
  { "gpt-4.1", "gpt-5-chat", "gpt-5-mini", "gpt-5-nano", "phi-4",
    "grok-3-mini", "mistral-small-2503", "mistral-small-2503-2" }

TranslationModel == ChatModels \cup { "azure-translate" }

ModelLabels(model) ==
  CASE model = "gpt-4.1" -> "GPT-4.1"
    [] model = "gpt-5-chat" -> "GPT-5 Chat"
    [] model = "gpt-5-mini" -> "GPT-5 Mini"
    [] model = "gpt-5-nano" -> "GPT-5 Nano"
    [] model = "phi-4" -> "Microsoft Phi-4"
    [] model = "grok-3-mini" -> "Grok-3 Mini"
    [] model = "mistral-small-2503" -> "Mistral Small 2503"
    [] model = "mistral-small-2503-2" -> "Mistral Small 2503-2"
    [] model = "azure-translate" -> "Azure AI Translation Service"
    [] OTHER -> "undefined"

\* --------------------------------------------------------- mockTranslation
\* (the Spanish phrases are written without their accents)
Gpt41BasicTranslations ==
  << << <<"h","e","l","l","o">>, "hola" >>,
     << <<"w","o","r","l","d">>, "mundo" >>,
     << <<"h","o","w"," ","a","r","e"," ","y","o","u">>, "como estas" >>,
     << <<"g","o","o","d"," ","m","o","r","n","i","n","g">>, "buenos dias" >>,
     << <<"t","h","a","n","k"," ","y","o","u">>, "gracias" >>,
     << <<"p","l","e","a","s","e">>, "por favor" >>,
     << <<"y","e","s">>, "si" >>,
     << <<"n","o">>, "no" >>,
     << <<"w","a","t","e","r">>, "agua" >>,
     << <<"f","o","o","d">>, "comida" >> >>

AzureBasicTranslations ==
  << << <<"w","e","l","c","o","m","e"," ","t","o"," ","o","u","r"," ","p","l","a","t","f","o","r","m">>, "bienvenido a nuestra plataforma" >>,
     << <<"g","e","t"," ","s","t","a","r","t","e","d">>, "empezar" >>,
     << <<"c","o","n","t","a","c","t"," ","s","u","p","p","o","r","t">>, "contactar soporte" >>,
     << <<"u","s","e","r"," ","d","a","s","h","b","o","a","r","d">>, "panel de usuario" >>,
     << <<"a","b","o","u","t"," ","u","s">>, "acerca de nosotros" >>,
     << <<"p","r","i","v","a","c","y"," ","p","o","l","i","c","y">>, "politica de privacidad" >>,
     << <<"t","e","r","m","s"," ","o","f"," ","s","e","r","v","i","c","e">>, "terminos de servicio" >>,
     << <<"p","r","o","d","u","c","t"," ","f","e","a","t","u","r","e","s">>, "caracteristicas del producto" >>,
     << <<"c","u","s","t","o","m","e","r"," ","r","e","v","i","e","w","s">>, "resenas de clientes" >>,
     << <<"p","r","i","c","i","n","g"," ","p","l","a","n","s">>, "planes de precios" >> >>

FirstHitMutant(dict, text) ==
  LET lowerText == ToLowerCase(text.body)
      hits == { i \in 1..Len(dict) : Includes(lowerText, dict[i][1]) }
  IN IF hits = {} THEN 0
     ELSE CHOOSE i \in hits : \A j \in hits : i >= j

\* index of the first dictionary entry whose phrase the lowercased text
\* includes, 0 when there is none (the for..of loop over Object.entries)
FirstHit(dict, text) ==
  LET lowerText == ToLowerCase(text.body)
      hits == { i \in 1..Len(dict) : Includes(lowerText, dict[i][1]) }
  IN IF hits = {} THEN 0
     ELSE CHOOSE i \in hits : \A j \in hits : i <= j

\* The string mockTranslation returns, as template + holes:
\*   tmpl "hit-es"  `${spanish} (traducido con ${label})`
\*   tmpl "hit-en"  `${spanish} (translated with ${label})`
\*   tmpl "direct"  `Traduccion directa: "${text}" (generado por ${label} - version demo)`
\*   tmpl "demo"    `Traduccion en espanol del texto: "${text}" (generado por ${label} - version demo)`
\*   tmpl "bracket" `[${label} Mock] Spanish translation of: "${text}"`
mockTranslation(text, model) ==
  IF model = "azure-translate" THEN
    LET i == FirstHit(AzureBasicTranslations, text)
    IN IF i > 0
       THEN [tmpl |-> "hit-es", spanish |-> AzureBasicTranslations[i][2],
             label |-> ModelLabels(model), text |-> EmptyText]
       ELSE [tmpl |-> "direct", spanish |-> "",
             label |-> ModelLabels(model), text |-> text]
  ELSE IF model = "gpt-4.1" THEN
    LET i == FirstHit(Gpt41BasicTranslations, text)
    IN IF i > 0
       THEN [tmpl |-> "hit-en", spanish |-> Gpt41BasicTranslations[i][2],
             label |-> ModelLabels(model), text |-> EmptyText]
       ELSE [tmpl |-> "demo", spanish |-> "",
             label |-> ModelLabels(model), text |-> text]
  ELSE [tmpl |-> "bracket", spanish |-> "",
        label |-> ModelLabels(model), text |-> text]

NoMock == [tmpl |-> "none", spanish |-> "", label |-> "", text |-> EmptyText]

\* ------------------------------------------------ environment and config
Https == <<"h","t","t","p","s",":","/","/">>

StandardEndpoint ==
  Https \o <<"r","1",".","c","o","g","n","i","t","i","v","e","s","e","r","v",
             "i","c","e","s",".","a","z","u","r","e",".","c","o","m","/">>
FoundryEndpoint ==
  Https \o <<"p","1",".","s","e","r","v","i","c","e","s",".","a","i",".",
             "a","z","u","r","e",".","c","o","m","/","m","o","d","e","l","s">>
BareEndpoint == <<" ","r","1",".","o","p","e","n","a","i",".","a","z","u","r","e",".","c","o","m"," ">>

\* values of VITE_AZURE_OPENAI_ENDPOINT (<<>> is unset)
EndpointInputs == { <<>>, StandardEndpoint, FoundryEndpoint, BareEndpoint }

\* the values an optional environment variable takes ("" is unset)
KeyInputs == { "", "key" }

\* import.meta.env: the VITE_AZURE_OPENAI_*, VITE_GPT5_API_KEY and
\* VITE_AZURE_TRANSLATE_* variables
Envs ==
  [ endpointRaw : EndpointInputs, apiKey : KeyInputs, gpt5ApiKey : { "" },
    trEndpoint : KeyInputs, trApiKey : KeyInputs, trRegion : KeyInputs ]

RECURSIVE UpTo(_, _)
\* the prefix of s before the first occurrence of character c
UpTo(s, c) ==
  IF s = <<>> \/ Head(s) = c THEN <<>> ELSE <<Head(s)>> \o UpTo(Tail(s), c)

\* the port an https URL leaves out of its origin
DefaultPort == <<"4","4","3">>

\* new URL(raw): ok = FALSE when the constructor throws
\* (hostname is the authority without its port; origin keeps a port other
\* than the default one of https)
ParseUrl(raw) ==
  LET t == Trim(raw)
  IN IF Len(t) > Len(Https) /\ SubSeq(t, 1, Len(Https)) = Https
     THEN LET authority == UpTo(SubSeq(t, Len(Https) + 1, Len(t)), "/")
              host == UpTo(authority, ":")
              port == SubSeq(authority, Len(host) + 2, Len(authority))
          IN [ok |-> host # <<>>, protocol |-> <<"h","t","t","p","s",":">>,
              hostname |-> host,
              origin |-> IF port = <<>> \/ port = DefaultPort
                         THEN Https \o host
                         ELSE Https \o host \o <<":">> \o port]
     ELSE [ok |-> FALSE, protocol |-> <<>>, hostname |-> <<>>, origin |-> <<>>]

FoundryHost == <<"s","e","r","v","i","c","e","s",".","a","i",".","a","z","u","r","e",".","c","o","m">>

\* config.deployments
Deployments(model) ==
  CASE model = "gpt-4.1" -> "gpt-4.1"
    [] model = "phi-4" -> "Phi-4"
    [] model = "grok-3-mini" -> "grok-3-mini"
    [] model = "mistral-small-2503" -> "mistral-small-2503"
    [] model = "mistral-small-2503-2" -> "mistral-small-2503-2"
    [] model = "gpt-5-chat" -> "gpt-5-chat"
    [] model = "gpt-5-mini" -> "gpt-5-mini"
    [] model = "gpt-5-nano" -> "gpt-5-nano"

\* config.apiVersions
ApiVersions(model) ==
  IF model \in { "gpt-4.1", "gpt-5-chat", "gpt-5-mini", "gpt-5-nano" }
  THEN "2024-12-01-preview"
  ELSE "2024-02-15-preview"

\* config.resourceNames
ResourceNames(model) ==
  IF model \in { "gpt-5-chat", "gpt-5-mini", "gpt-5-nano" }
  THEN "vmuni-mecuvn70-eastus2"
  ELSE "aifoundry-eus-01"

\* the key the source falls back to when VITE_GPT5_API_KEY is unset
HardcodedGpt5ApiKey == "AryCDJ5I5fb0cTiKciDsnOIWa8J6So948rmMDq3dDHX9HSVYeRRuJQQJ99BHACHYHv6XJ3w3AAAAACOGsSsE"

ResourceApiKeysMutant(e) ==
  [ resource \in { "aifoundry-eus-01", "aoai-learn-sk-01", "vmuni-mecuvn70-eastus2" } |->
      IF resource = "vmuni-mecuvn70-eastus2" THEN e.gpt5ApiKey ELSE e.apiKey ]

\* config.resourceApiKeys
ResourceApiKeys(e) ==
  [ resource \in { "aifoundry-eus-01", "aoai-learn-sk-01", "vmuni-mecuvn70-eastus2" } |->
      IF resource = "vmuni-mecuvn70-eastus2"
      THEN IF e.gpt5ApiKey # "" THEN e.gpt5ApiKey ELSE HardcodedGpt5ApiKey
      ELSE e.apiKey ]

NoConfig ==
  [set |-> FALSE, endpoint |-> <<>>, apiKey |-> "", deployments |-> <<>>,
   apiVersions |-> <<>>, resourceNames |-> <<>>, resourceApiKeys |-> <<>>]

initializeConfigMutant(e) ==
  IF e.endpointRaw = <<>> \/ e.apiKey = "" THEN NoConfig
  ELSE LET url == ParseUrl(e.endpointRaw)
       IN [set |-> TRUE,
           endpoint |->
             IF url.ok /\ Includes(url.hostname, FoundryHost)
             THEN url.protocol \o <<"/","/">> \o url.hostname
             ELSE url.origin,
           apiKey |-> e.apiKey,
           deployments |-> [ model \in ChatModels |-> Deployments(model) ],
           apiVersions |-> [ model \in ChatModels |-> ApiVersions(model) ],
           resourceNames |-> [ model \in ChatModels |-> ResourceNames(model) ],
           resourceApiKeys |-> ResourceApiKeys(e)]

\* this.config after initializeConfig()
initializeConfig(e) ==
  IF e.endpointRaw = <<>> \/ e.apiKey = "" THEN NoConfig
  ELSE LET url == ParseUrl(e.endpointRaw)
       IN [set |-> TRUE,
           endpoint |->
             IF url.ok
             THEN IF Includes(url.hostname, FoundryHost)
                  THEN url.protocol \o <<"/","/">> \o url.hostname
                  ELSE url.origin
             ELSE Trim(e.endpointRaw),
           apiKey |-> e.apiKey,
           deployments |-> [ model \in ChatModels |-> Deployments(model) ],
           apiVersions |-> [ model \in ChatModels |-> ApiVersions(model) ],
           resourceNames |-> [ model \in ChatModels |-> ResourceNames(model) ],
           resourceApiKeys |-> ResourceApiKeys(e)]

NoTranslateConfig == [set |-> FALSE, endpoint |-> "", apiKey |-> "", region |-> ""]

initializeAzureTranslateMutant(e) ==
  IF e.trEndpoint = "" \/ e.trApiKey = "" THEN NoTranslateConfig
  ELSE [set |-> TRUE, endpoint |-> e.trEndpoint, apiKey |-> e.trApiKey,
        region |-> e.trRegion]

\* this.azureTranslateConfig after initializeAzureTranslate()
initializeAzureTranslate(e) ==
  IF e.trEndpoint = "" \/ e.trApiKey = "" \/ e.trRegion = "" THEN NoTranslateConfig
  ELSE [set |-> TRUE, endpoint |-> e.trEndpoint, apiKey |-> e.trApiKey,
        region |-> e.trRegion]

\* ----------------------------------------------------------------- errors
\* An error message is a template with its holes: the HTTP status, the
\* model and the token estimate it mentions (0 / "" when it has none).
Message(msg, status, model, tokens) ==
  [msg |-> msg, status |-> status, model |-> model, tokens |-> tokens]

Null == Message("null", 0, "", 0)

\* a thrown value: its message and its `status` property (0 = undefined)
Error(message, status) == [message |-> message, status |-> status]

NoError == Error(Null, 0)

\* error?.message || String(error)
ErrorText(error) ==
  IF error.message.msg # "" THEN error.message
  ELSE Message("Error", 0, "", 0)

\* ------------------------------------------------------ token pre-check
TokenLimit == 2500

\* Math.ceil(text.length / 4)
estimateTokenCount(text) == (TextLength(text) + 3) \div 4

isLimitedModel(model) == model \in { "gpt-5-mini", "gpt-5-nano", "grok-3-mini" }

OversizedMutant(text, model) ==
  isLimitedModel(model) /\ estimateTokenCount(text) >= TokenLimit

\* the condition of the throw in translateText
Oversized(text, model) ==
  isLimitedModel(model) /\ estimateTokenCount(text) > TokenLimit

TooLong(text, model) ==
  Error(Message("Text too long", 0, model, estimateTokenCount(text)), 0)

\* ----------------------------------------------------- upstream outcomes
Hola == <<"H","o","l","a">>

HttpStatuses == { 400, 401, 403, 404, 429, 500 }

FinishReasons == { "stop", "length", "content_filter" }

\* What client.chat.completions.create() does:
\*   "choices"   resolves; choices[0].message.content is `content`
\*               (hasContent = FALSE: the field is missing)
\*   "nochoices" resolves with no choices array
\*   "status"    rejects with an APIError carrying the HTTP status
\*   "network"   rejects with a connection error (no status)
ChatOutcome(kind, status, hasContent, content, finish) ==
  [kind |-> kind, status |-> status, hasContent |-> hasContent,
   content |-> content, finish |-> finish]

ChatOutcomes ==
  { ChatOutcome("choices", 200, TRUE, c, f) :
      c \in { Hola, <<" ">> \o Hola \o <<"\n">>, <<>>, <<" ", " ">> },
      f \in FinishReasons }
  \cup { ChatOutcome("choices", 200, FALSE, <<>>, f) : f \in FinishReasons }
  \cup { ChatOutcome("nochoices", 200, FALSE, <<>>, "stop") }
  \cup { ChatOutcome("status", st, FALSE, <<>>, "stop") : st \in HttpStatuses }
  \cup { ChatOutcome("network", 0, FALSE, <<>>, "stop") }

\* What fetch() and response.json() do:
\*   "json"    response.ok; the body has the given shape:
\*             "well"     [{translations:[{text: T}]}]
\*             "empty"    []
\*             "notrans"  [{}]
\*             "notext"   [{translations:[{}]}]
\*   "badjson" response.ok; response.json() rejects
\*   "status"  !response.ok with the HTTP status
\*   "network" fetch rejects (no response)
FetchOutcome(kind, status, shape, content) ==
  [kind |-> kind, status |-> status, shape |-> shape, content |-> content]

FetchOutcomes ==
  { FetchOutcome("json", 200, "well", c) : c \in { Hola, <<>> } }
  \cup { FetchOutcome("json", 200, sh, <<>>) : sh \in { "empty", "notrans", "notext" } }
  \cup { FetchOutcome("badjson", 200, "none", <<>>) }
  \cup { FetchOutcome("status", st, "none", <<>>) : st \in HttpStatuses }
  \cup { FetchOutcome("network", 0, "none", <<>>) }

\* ---------------------------------------------------------------- results
\* The text of a TranslationResult: a live translation or the mock output,
\* followed by a note:
\*   "none"   nothing appended
\*   "api"    `\n\n(Note: API call failed: ${reason})`
\*   "azure"  `\n\n(Note: Azure Translate API call failed: ${reason})`
\*   "demo"   `\n\n(Demo Note: GPT-4.1 is deployed but requires special API
\*            access. Using mock translation for demo.)`
Note(kind, reason) == [kind |-> kind, reason |-> reason]

NoNote == Note("none", Null)

LiveText(content) == [live |-> content, mock |-> NoMock, note |-> NoNote]

MockText(mock, note) == [live |-> <<>>, mock |-> mock, note |-> note]

NoText == [live |-> <<>>, mock |-> NoMock, note |-> NoNote]

LatencyMutant(startTime, endTime) == (startTime - endTime) \div 2

\* Math.round(endTime - startTime), the clock counting half milliseconds
Latency(startTime, endTime) == ((endTime - startTime) + 1) \div 2

TranslationResult(text, model, latency) ==
  [text |-> text, model |-> model, latency |-> latency]

NoResult == TranslationResult(NoText, "", 0)

\* What an awaited call produced: a value, or a thrown error.
Returned(value) == [threw |-> FALSE, value |-> value, error |-> NoError]

Threw(error) == [threw |-> TRUE, value |-> NoText, error |-> error]

\* ------------------------------------------------- translateSingleChunk
translateSingleChunkUntrimmed(o, model) ==
  IF o.kind = "status"
    THEN Threw(Error(Message("APIError", o.status, "", 0), o.status))
  ELSE IF o.kind = "network"
    THEN Threw(Error(Message("Connection error.", 0, "", 0), 0))
  ELSE IF o.kind = "nochoices"
    THEN Threw(Error(Message("TypeError: Cannot read properties of undefined", 0, "", 0), 0))
  ELSE LET translation == IF o.hasContent THEN o.content ELSE <<>>
       IN IF translation = <<>>
          THEN IF o.finish = "content_filter"
                 THEN Threw(Error(Message("Translation blocked by content filter", 0, "", 0), 0))
               ELSE IF o.finish = "length"
                 THEN Threw(Error(Message("Translation truncated due to length limit", 0, "", 0), 0))
               ELSE Threw(Error(Message("No translation received", 0, model, 0), 0))
          ELSE Returned(LiveText(translation))

\* The outcome of translateSingleChunk once create() has settled as `o`.
translateSingleChunk(o, model) ==
  IF o.kind = "status"
    THEN Threw(Error(Message("APIError", o.status, "", 0), o.status))
  ELSE IF o.kind = "network"
    THEN Threw(Error(Message("Connection error.", 0, "", 0), 0))
  ELSE IF o.kind = "nochoices"
    THEN Threw(Error(Message("TypeError: Cannot read properties of undefined", 0, "", 0), 0))
  ELSE LET translation == IF o.hasContent THEN Trim(o.content) ELSE <<>>
       IN IF translation = <<>>
          THEN IF o.finish = "content_filter"
                 THEN Threw(Error(Message("Translation blocked by content filter", 0, "", 0), 0))
               ELSE IF o.finish = "length"
                 THEN Threw(Error(Message("Translation truncated due to length limit", 0, "", 0), 0))
               ELSE Threw(Error(Message("No translation received", 0, model, 0), 0))
          ELSE Returned(LiveText(translation))

\* ------------------------------------------- translateWithAzureTranslate
\* What the try block of translateWithAzureTranslate does once fetch()
\* and response.json() have settled as `o`.
azureTranslateTry(o) ==
  IF o.kind = "network"
    THEN Threw(Error(Message("TypeError: Failed to fetch", 0, "", 0), 0))
  ELSE IF o.kind = "status"
    THEN Threw(Error(Message("Azure Translate API error", o.status, "", 0), 0))
  ELSE IF o.kind = "badjson"
    THEN Threw(Error(Message("SyntaxError: Unexpected token", 0, "", 0), 0))
  ELSE IF o.shape \in { "empty", "notrans" }
    THEN Threw(Error(Message("Invalid response format from Azure Translate", 0, "", 0), 0))
  ELSE IF o.shape = "notext"
    THEN Threw(Error(Message("TypeError: Cannot read properties of undefined", 0, "", 0), 0))
  ELSE Returned(LiveText(o.content))

\* this.lastError as the catch block of translateWithAzureTranslate sets it
azureTranslateCatch(error) ==
  IF error.status = 401
    THEN Message("Authentication failed - check your Azure Translate API key", 0, "", 0)
  ELSE IF error.status = 403
    THEN Message("Access denied - check your Azure Translate subscription", 0, "", 0)
  ELSE IF error.status = 429
    THEN Message("Rate limit exceeded - please wait and try again", 0, "", 0)
  ELSE ErrorText(error)

\* The value translateWithAzureTranslate resolves with, and this.lastError
\* after it, once the request has settled as `o`.
translateWithAzureTranslate(o, text) ==
  LET attempt == azureTranslateTry(o)
  IN IF attempt.threw
     THEN LET e == azureTranslateCatch(attempt.error)
          IN [value |-> MockText(mockTranslation(text, "azure-translate"), Note("azure", e)),
              lastError |-> e]
     ELSE [value |-> attempt.value, lastError |-> Null]

\* ------------------------------------------------------- translateText
\* this.lastError as the catch block of translateText sets it
translateTextCatch(error) ==
  IF error.status = 401
    THEN Message("Authentication failed - check your API key", 0, "", 0)
  ELSE IF error.status = 404
    THEN Message("Model deployment not found - check deployment names", 0, "", 0)
  ELSE IF error.status = 429
    THEN Message("Rate limit exceeded - please wait and try again", 0, "", 0)
  ELSE ErrorText(error)

fallbackTextMutant(text, model, lastErr) ==
  MockText(mockTranslation(text, model), NoNote)

\* fallbackText in the catch block of translateText
fallbackText(text, model, lastErr) ==
  IF model = "gpt-4.1"
  THEN MockText(mockTranslation(text, model), Note("demo", Null))
  ELSE MockText(mockTranslation(text, model), Note("api", lastErr))

\* How translateText settles when its try block produced `attempt`:
\* the result it resolves with, the error it rejects with (NoError: it
\* resolves) and this.lastError afterwards.
translateTextSettle(attempt, text, model, startTime, endTime, lastErr) ==
  IF attempt.threw
  THEN LET e == translateTextCatch(attempt.error)
       IN [result |-> TranslationResult(fallbackText(text, model, e), model,
                                        Latency(startTime, endTime)),
           thrown |-> NoError, lastError |-> e]
  ELSE [result |-> TranslationResult(attempt.value, model,
                                     Latency(startTime, endTime)),
        thrown |-> NoError, lastError |-> lastErr]

\* ---------------------------------------------- client and request
\* the baseURL `${endpoint}/openai/deployments/${deploymentName}`
BaseURL(endpoint, deploymentName) ==
  [endpoint |-> endpoint, path |-> "/openai/deployments/",
   deploymentName |-> deploymentName]

\* the options of `new OpenAI(...)`
Client(apiKey, baseURL, apiVersion) ==
  [apiKey |-> apiKey, baseURL |-> baseURL, apiVersion |-> apiVersion]

NoClient == Client("", BaseURL(<<>>, ""), "")

AoaiLearnOrigin ==
  Https \o <<"a","o","a","i","-","l","e","a","r","n","-","s","k","-","0","1",".",
             "o","p","e","n","a","i",".","a","z","u","r","e",".","c","o","m">>

VmuniOrigin ==
  Https \o <<"v","m","u","n","i","-","m","e","c","u","v","n","7","0","-",
             "e","a","s","t","u","s","2",".","c","o","g","n","i","t","i","v","e",
             "s","e","r","v","i","c","e","s",".","a","z","u","r","e",".","c","o","m">>

\* the endpoint createClientForModel chooses for a resource
ResourceEndpoint(cfg, resourceName) ==
  IF resourceName = "aoai-learn-sk-01" THEN AoaiLearnOrigin
  ELSE IF resourceName = "vmuni-mecuvn70-eastus2" THEN VmuniOrigin
  ELSE cfg.endpoint

\* createClientForModel(model): a model id the tables of initializeConfig
\* do not list has no resource name and so no API key, and the OpenAI
\* constructor throws when apiKey is undefined
createClientForModel(cfg, model) ==
  IF model \in DOMAIN cfg.resourceNames
  THEN LET resourceName == cfg.resourceNames[model]
       IN [threw |-> FALSE, error |-> NoError,
           client |-> Client(cfg.resourceApiKeys[resourceName],
                             BaseURL(ResourceEndpoint(cfg, resourceName),
                                     cfg.deployments[model]),
                             cfg.apiVersions[model])]
  ELSE [threw |-> TRUE,
        error |-> Error(Message("The OPENAI_API_KEY environment variable is missing or empty",
                                0, "", 0), 0),
        client |-> NoClient]

\* a field the request does not carry
Absent == 0 - 1

\* requestParams without its messages; temperature and top_p in tenths
RequestParams(model, max_tokens, max_completion_tokens, temperature, top_p, frequency_penalty, presence_penalty) ==
  [model |-> model, max_tokens |-> max_tokens,
   max_completion_tokens |-> max_completion_tokens,
   temperature |-> temperature, top_p |-> top_p,
   frequency_penalty |-> frequency_penalty,
   presence_penalty |-> presence_penalty]

NoRequest == RequestParams("", Absent, Absent, Absent, Absent, Absent, Absent)

\* model.startsWith(prefix), for the prefixes translateSingleChunk tests
StartsWith(model, prefix) ==
  CASE prefix = "mistral-" -> model \in { "mistral-small-2503", "mistral-small-2503-2" }
    [] prefix = "gpt-5-" -> model \in { "gpt-5-chat", "gpt-5-mini", "gpt-5-nano" }

requestParamsMutant(cfg, model) ==
  LET deploymentName == cfg.deployments[model]
  IN IF model = "phi-4" \/ model = "grok-3-mini"
       THEN RequestParams(deploymentName, Absent,
                          IF model = "grok-3-mini" THEN 1500 ELSE 2500,
                          1, Absent, Absent, Absent)
     ELSE IF StartsWith(model, "mistral-")
       THEN RequestParams(deploymentName, 2500, Absent, 1, Absent, Absent, Absent)
     ELSE IF StartsWith(model, "gpt-5-")
       THEN RequestParams(deploymentName, Absent,
                          IF model = "gpt-5-mini" \/ model = "gpt-5-nano"
                          THEN 1500 ELSE 2500,
                          1, 9, 0, 0)
     ELSE RequestParams(deploymentName, 2500, Absent, 1, 9, 0, 0)

requestParamsTableMutant(cfg, model) ==
  LET deploymentName == cfg.deployments[model]
  IN IF model = "phi-4" \/ model = "grok-3-mini"
       THEN RequestParams(deploymentName, Absent,
                          IF model = "grok-3-mini" THEN 1500 ELSE 2500,
                          1, Absent, Absent, Absent)
     ELSE IF StartsWith(model, "mistral-")
       THEN RequestParams(deploymentName, 2500, Absent, 1, Absent, Absent, Absent)
     ELSE IF StartsWith(model, "gpt-5-")
       THEN IF model = "gpt-5-chat"
            THEN RequestParams(deploymentName, Absent, 2500, 1, 9, Absent, Absent)
            ELSE RequestParams(deploymentName, Absent, 1500, Absent, Absent, 0, 0)
     ELSE RequestParams(deploymentName, 2500, Absent, 1, 9, 0, 0)

\* the requestParams translateSingleChunk passes to create()
requestParams(cfg, model) ==
  LET deploymentName == cfg.deployments[model]
  IN IF model = "phi-4" \/ model = "grok-3-mini"
       THEN RequestParams(deploymentName, Absent,
                          IF model = "grok-3-mini" THEN 1500 ELSE 2500,
                          1, Absent, Absent, Absent)
     ELSE IF StartsWith(model, "mistral-")
       THEN RequestParams(deploymentName, 2500, Absent, 1, Absent, Absent, Absent)
     ELSE IF StartsWith(model, "gpt-5-")
       THEN RequestParams(deploymentName, Absent,
                          IF model = "gpt-5-mini" \/ model = "gpt-5-nano"
                          THEN 1500 ELSE 2500,
                          IF model = "gpt-5-chat" THEN 1 ELSE Absent,
                          IF model = "gpt-5-chat" THEN 9 ELSE Absent,
                          0, 0)
     ELSE RequestParams(deploymentName, 2500, Absent, 1, 9, 0, 0)

\* ------------------------------------------------------------------ state
VARIABLES
  \* the service (AzureOpenAIService)
  env,                  \* import.meta.env
  config,               \* AzureOpenAIService.config
  azureTranslateConfig, \* AzureOpenAIService.azureTranslateConfig
  lastError,            \* AzureOpenAIService.lastError
  now,                  \* performance.now(), in half milliseconds
  pc,                   \* where the translateText call in progress stands
  cur,                  \* its arguments and startTime
  requests,             \* outbound requests it has issued
  reply,                \* how the upstream answered its request
  result,               \* the TranslationResult it resolved with
  thrown,               \* the error it rejected with
  client,               \* the OpenAI client it created
  request,              \* the requestParams it passed to create()
  \* the CSV translator (CsvTranslator)
  selectedModels,
  uploadedFile,
  csvData,
  csvHeaders,
  isTranslating,
  translationProgress,
  translationResults,
  translatedCsvData,
  currentTranslatingText,
  reading,              \* the files a FileReader is still loading
  batch,                \* the locals of the running handleTranslateCsv
  downloaded,           \* how the click on a download button ended, while
                        \* that click is the last thing that happened
  \* the page (App)
  app                   \* mode, inputText, selectedModel, isTranslating,
                        \* error and translationResult of App

svcVars ==
  << env, config, azureTranslateConfig, lastError, now, pc, cur, requests,
     reply, result, thrown, client, request >>

csvVars ==
  << selectedModels, uploadedFile, csvData, csvHeaders, isTranslating,
     translationProgress, translationResults, translatedCsvData,
     currentTranslatingText, reading, batch, downloaded >>

appVars == << app >>

vars == << svcVars, csvVars, appVars >>

Call(text, model, startTime) == [text |-> text, model |-> model, startTime |-> startTime]

NoCall == Call(EmptyText, "", 0)

\* the shape and the text of a JSON body received from Azure Translate
Body(shape, content) == [shape |-> shape, content |-> content]

NoBody == Body("none", <<>>)

\* choices[0] of a chat completion: whether message.content is there, what
\* it is, and finish_reason
Choice(hasContent, content, finish) ==
  [hasContent |-> hasContent, content |-> content, finish |-> finish]

NoChoice == Choice(FALSE, <<>>, "none")

Reply(kind, status) ==
  [kind |-> kind, status |-> status, body |-> NoBody, choice |-> NoChoice]

\* the answer of Azure Translate to the fetch()
FetchReply(o) == [kind |-> o.kind, status |-> o.status,
                  body |-> Body(o.shape, o.content), choice |-> NoChoice]

\* the answer of the deployment to create()
ChatReply(o) ==
  [kind |-> o.kind, status |-> o.status, body |-> NoBody,
   choice |-> IF o.kind = "choices"
              THEN Choice(o.hasContent, o.content, o.finish)
              ELSE NoChoice]

NoReply == Reply("none", 0)

\* the constructor of AzureOpenAIService, the clock reading `clock`
ServiceInit(envs, clock) ==
  /\ env \in envs
  /\ config = initializeConfig(env)
  /\ azureTranslateConfig = initializeAzureTranslate(env)
  /\ lastError = Null
  /\ now = clock
  /\ pc = "idle"
  /\ cur = NoCall
  /\ requests = 0
  /\ reply = NoReply
  /\ result = NoResult
  /\ thrown = NoError
  /\ client = NoClient
  /\ request = NoRequest

\* translateText settles: the caller gets a result or an error
Settle(call, attempt, endTime, lastErr) ==
  LET s == translateTextSettle(attempt, call.text, call.model, call.startTime,
                               endTime, lastErr)
  IN /\ result' = s.result
     /\ thrown' = s.thrown
     /\ lastError' = s.lastError
     /\ now' = endTime
     /\ pc' = "done"

\* translateText(text, model) up to its first await on the network, or to
\* its end when it makes no request
TranslateTextCall(text, model) ==
  LET call == Call(text, model, now)
      mock == Returned(MockText(mockTranslation(text, model), NoNote))
      created == createClientForModel(config, model)
      chat == /\ model # "azure-translate"
              /\ config.set
              /\ ~Oversized(text, model)
              /\ ~created.threw
  IN
  /\ pc = "idle"
  /\ client' = IF chat THEN created.client ELSE NoClient
  /\ request' = IF chat THEN requestParams(config, model) ELSE NoRequest
  /\ cur' = call
  /\ reply' = NoReply
  /\ UNCHANGED << env, config, azureTranslateConfig >>
  /\ IF model = "azure-translate"
     THEN IF ~azureTranslateConfig.set
          THEN /\ requests' = 0
               /\ \E endTime \in now..MaxClock :
                    Settle(call, mock, endTime, lastError)
          ELSE /\ lastError' = Null
               /\ requests' = 1
               /\ pc' = "fetch"
               /\ UNCHANGED << now, result, thrown >>
     ELSE IF ~config.set
          THEN /\ requests' = 0
               /\ \E endTime \in now..MaxClock :
                    Settle(call, mock, endTime, lastError)
          ELSE IF Oversized(text, model)
          THEN /\ requests' = 0
               /\ \E endTime \in now..MaxClock :
                    Settle(call, Threw(TooLong(text, model)), endTime, lastError)
          ELSE IF created.threw
          THEN /\ requests' = 0
               /\ \E endTime \in now..MaxClock :
                    Settle(call, Threw(created.error), endTime, lastError)
          ELSE /\ requests' = 1
               /\ pc' = "create"
               /\ UNCHANGED << lastError, now, result, thrown >>

\* the fetch() of translateWithAzureTranslate settles as one of `outcomes`
\* and translateText runs to its end
FetchSettlesAs(outcomes) ==
  \E o \in outcomes, endTime \in now..MaxClock :
    /\ pc = "fetch"
    /\ reply' = FetchReply(o)
    /\ LET r == translateWithAzureTranslate(o, cur.text)
       IN Settle(cur, Returned(r.value), endTime, r.lastError)
    /\ UNCHANGED << env, config, azureTranslateConfig, cur, requests, client,
                    request >>

\* client.chat.completions.create() settles as one of `outcomes` and
\* translateText runs to its end; `reply` keeps the whole first choice of
\* the answer when `whole`, otherwise its kind and status only
CreateSettlesAs(outcomes, whole) ==
  \E o \in outcomes, endTime \in now..MaxClock :
    /\ pc = "create"
    /\ reply' = IF whole THEN ChatReply(o) ELSE Reply(o.kind, o.status)
    /\ Settle(cur, translateSingleChunk(o, cur.model), endTime, lastError)
    /\ UNCHANGED << env, config, azureTranslateConfig, cur, requests, client,
                    request >>

\* the caller has taken the result; the service is ready for the next call
Returns ==
  /\ pc = "done"
  /\ pc' = "idle"
  /\ cur' = NoCall
  /\ requests' = 0
  /\ reply' = NoReply
  /\ result' = NoResult
  /\ thrown' = NoError
  /\ client' = NoClient
  /\ request' = NoRequest
  /\ UNCHANGED << env, config, azureTranslateConfig, lastError, now >>

\* =========================================================== CsvTranslator
\* --------------------------------------------------------------- bounds
\* FileReader loads that may be pending at the same time
MaxReading == 1

\* ------------------------------------------------------ strings and cells
English == <<"E","n","g","l","i","s","h">>
SpaceEnglish == <<" ","E","n","g","l","i","s","h">>
SNo == <<"S",".","N","o">>
SpanishDash == <<"S","p","a","n","i","s","h","-">>
DotCsv == <<".","c","s","v">>

\* String.prototype.split
RECURSIVE Split(_, _)
Split(s, sep) ==
  LET first == UpTo(s, sep)
  IN IF Len(first) = Len(s) THEN << s >>
     ELSE << first >> \o Split(SubSeq(s, Len(first) + 2, Len(s)), sep)

\* String.prototype.endsWith
EndsWith(s, suffix) ==
  Len(s) >= Len(suffix) /\ SubSeq(s, Len(s) - Len(suffix) + 1, Len(s)) = suffix

\* replace(/"/g, '')
RemoveQuotes(s) == SelectSeq(s, LAMBDA c : c # "\"")

\* /[a-zA-Z]/.test(s)
HasLetter(s) ==
  \E i \in 1..Len(s) :
    LowerChar(s[i]) \in { "a","b","c","d","e","f","g","h","i","j","k","l","m",
                          "n","o","p","q","r","s","t","u","v","w","x","y","z" }

\* A cell of a CsvRow: a string, or (once translated) whatever the
\* service returned for the model, or undefined.
StringCell(str) == [kind |-> "string", str |-> str, obj |-> NoResult]

ObjectCell(obj) == [kind |-> "object", str |-> <<>>, obj |-> obj]

Undefined == [kind |-> "undefined", str |-> <<>>, obj |-> NoResult]

\* JavaScript truthiness of a cell
Truthy(cell) == cell.kind = "object" \/ (cell.kind = "string" /\ cell.str # <<>>)

\* row[key]
Get(row, key) == IF key \in DOMAIN row THEN row[key] ELSE Undefined

\* row['English'] || row[' English'] || ''
EnglishText(row) ==
  IF Truthy(Get(row, English)) THEN Get(row, English)
  ELSE IF Truthy(Get(row, SpaceEnglish)) THEN Get(row, SpaceEnglish)
  ELSE StringCell(<<>>)

\* modelLabels of CsvTranslator
CsvModelLabels(model) ==
  CASE model = "gpt-4o" -> <<"G","P","T","-","4","o">>
    [] model = "gpt-5" -> <<"G","P","T","-","5">>
    [] model = "gpt-4.1" -> <<"G","P","T","-","4",".","1">>
    [] OTHER -> <<"u","n","d","e","f","i","n","e","d">>

\* `Spanish-${modelLabels[model]}`
ColumnName(model) == SpanishDash \o CsvModelLabels(model)

\* ---------------------------------------------------------------- parseCsv
RECURSIVE ParseLineFrom(_, _, _, _, _)
ParseLineFrom(line, i, current, inQuotes, res) ==
  IF i > Len(line) THEN Append(res, Trim(current))
  ELSE IF line[i] = "\""
    THEN IF inQuotes /\ i + 1 <= Len(line) /\ line[i + 1] = "\""
         THEN ParseLineFrom(line, i + 2, Append(current, "\""), inQuotes, res)
         ELSE ParseLineFrom(line, i + 1, current, ~inQuotes, res)
  ELSE IF line[i] = "," /\ ~inQuotes
    THEN ParseLineFrom(line, i + 1, <<>>, inQuotes, Append(res, Trim(current)))
  ELSE ParseLineFrom(line, i + 1, Append(current, line[i]), inQuotes, res)

parseCsvLine(line) == ParseLineFrom(line, 1, <<>>, FALSE, <<>>)

\* the row headers.forEach builds from the values of one line
MakeRow(headers, values) ==
  [ h \in { headers[k] : k \in 1..Len(headers) } |->
      LET last == CHOOSE k \in 1..Len(headers) :
                    /\ headers[k] = h
                    /\ \A l \in 1..Len(headers) : headers[l] = h => l <= k
      IN StringCell(values[last]) ]

RECURSIVE DataRows(_, _, _)
DataRows(lines, i, headers) ==
  IF i > Len(lines) THEN <<>>
  ELSE LET values == parseCsvLine(lines[i])
       IN (IF Len(values) = Len(headers)
           THEN << MakeRow(headers, values) >> ELSE <<>>)
          \o DataRows(lines, i + 1, headers)

hasRequiredColumnsMutant(headers) ==
  \E col \in { SNo, English } :
    \E k \in 1..Len(headers) :
      ToLowerCase(Trim(headers[k])) = ToLowerCase(col)

\* requiredColumns.every(col => headers.some(...))
hasRequiredColumns(headers) ==
  \A col \in { SNo, English } :
    \E k \in 1..Len(headers) :
      ToLowerCase(Trim(headers[k])) = ToLowerCase(col)

\* parseCsv(content): ok = FALSE when it throws `error`
parseCsv(content) ==
  LET lines == Split(Trim(content), "\n")
      headers == [ k \in 1..Len(Split(lines[1], ",")) |->
                     RemoveQuotes(Trim(Split(lines[1], ",")[k])) ]
  IN IF Len(lines) = 0
       THEN [ok |-> FALSE, error |-> "Empty CSV file", headers |-> <<>>, data |-> <<>>]
     ELSE IF ~hasRequiredColumns(headers)
       THEN [ok |-> FALSE, error |-> "CSV must have columns: S.No, English",
             headers |-> <<>>, data |-> <<>>]
     ELSE [ok |-> TRUE, error |-> "", headers |-> headers,
           data |-> DataRows(lines, 2, headers)]

\* ------------------------------------------------------ extractTextFromCsv
RECURSIVE extractTextFromCsv(_)
extractTextFromCsv(data) ==
  IF data = <<>> THEN <<>>
  ELSE LET englishText == EnglishText(Head(data))
       IN (IF /\ englishText.kind = "string"
              /\ Len(Trim(englishText.str)) > 0
              /\ HasLetter(englishText.str)
           THEN << Trim(englishText.str) >> ELSE <<>>)
          \o extractTextFromCsv(Tail(data))

UniqueTextsMutant(allTexts) == allTexts

\* [...new Set(allTexts)]
RECURSIVE UniqueTexts(_)
UniqueTexts(allTexts) ==
  IF allTexts = <<>> THEN <<>>
  ELSE LET init == UniqueTexts(SubSeq(allTexts, 1, Len(allTexts) - 1))
           last == allTexts[Len(allTexts)]
       IN IF \E k \in 1..Len(init) : init[k] = last THEN init
          ELSE Append(init, last)

\* ------------------------------------------------------------- the files
File(name, content) == [name |-> name, content |-> content]

NoFile == File(<<>>, <<>>)

Files ==
  { File(<<"a",".","c","s","v">>, <<"S",".","N","o",",","E","n","g","l","i","s","h","\n","1",",","H","i","\n","2",",","H","i","\n","3",",","B","y","e">>),
    File(<<"b",".","c","s","v">>, <<"S",".","N","o",",","E","n","g","l","i","s","h",",","S","p","a","n","i","s","h","-","G","P","T","-","4",".","1","\n","1",",","B","y","e",",","A","d","i","o","s","\n","2",",","4","2",",","-">>),
    File(<<"c",".","c","s","v">>, <<"S",".","N","o",",","T","e","x","t","\n","1",",","H","i">>),
    File(<<"d",".","t","x","t">>, <<"H","i">>),
    File(<<"e",".","c","s","v">>, <<>>),
    File(<<"f",".","c","s","v">>, <<"E","n","g","l","i","s","h","\n","H","i">>) }

\* a file whose header row is written in lower case, and the files chosen
\* where the letter case of the header matters
LowerCaseFile == File(<<"g",".","c","s","v">>, <<"s",".","n","o",",","e","n","g","l","i","s","h","\n","1",",","H","i">>)

HeaderFiles ==
  { LowerCaseFile,
    File(<<"a",".","c","s","v">>, <<"S",".","N","o",",","E","n","g","l","i","s","h","\n","1",",","H","i","\n","2",",","H","i","\n","3",",","B","y","e">>) }

\* the models whose checkbox the user toggles
ToggledModels == { "gpt-4o", "gpt-4.1" }

\* the environments the CSV translator is run in: nothing configured, or
\* Azure OpenAI configured
CsvEnvs ==
  { [endpointRaw |-> <<>>, apiKey |-> "", gpt5ApiKey |-> "", trEndpoint |-> "",
     trApiKey |-> "", trRegion |-> ""],
    [endpointRaw |-> StandardEndpoint, apiKey |-> "key", gpt5ApiKey |-> "",
     trEndpoint |-> "", trApiKey |-> "", trRegion |-> ""] }

\* how the upstream answers during a batch
CsvChatOutcomes ==
  { ChatOutcome("choices", 200, TRUE, Hola, "stop"),
    ChatOutcome("status", 401, FALSE, <<>>, "stop") }

\* ------------------------------------------------------- component state
ProgressMutant(num, den) == [num |-> num, den |-> den + 1]

\* a progress value: ((i + 1) / uniqueTexts.length) * 100 is num / den
Progress(num, den) == [num |-> num, den |-> den]

\* the locals of handleTranslateCsv and of the translateTextWithMultipleModels
\* call it awaits; `log` lists the translateText calls made so far
Batch(stage, data, models, uniqueTexts, i, j, translations, results, maps, log) ==
  [stage |-> stage, csvData |-> data, selectedModels |-> models,
   uniqueTexts |-> uniqueTexts, i |-> i, j |-> j,
   translations |-> translations, results |-> results,
   translationMaps |-> maps, log |-> log]

NoBatch == Batch("idle", <<>>, <<>>, <<>>, 0, 0, <<>>, <<>>, <<>>, <<>>)

\* how a click on the download button of the file `name` ends
Outcome(name, file) == [name |-> name, threw |-> file.threw]

NoDownload == [name |-> "none", threw |-> FALSE]

\* the useState initial values
CsvInit ==
  /\ selectedModels = << "gpt-4o" >>
  /\ uploadedFile = NoFile
  /\ csvData = <<>>
  /\ csvHeaders = <<>>
  /\ isTranslating = FALSE
  /\ translationProgress = Progress(0, 1)
  /\ translationResults = <<>>
  /\ translatedCsvData = <<>>
  /\ currentTranslatingText = <<>>
  /\ reading = <<>>
  /\ batch = NoBatch
  /\ downloaded = NoDownload

\* ------------------------------------------------------ building the rows
AddColumnsMutant(row, models, translations, englishText) == row

RECURSIVE AddColumns(_, _, _, _)
\* selectedModels.forEach(model => newRow[columnName] = translations[model] || englishText)
AddColumns(row, models, translations, englishText) ==
  IF models = <<>> THEN row
  ELSE LET model == Head(models)
           value == IF model \in DOMAIN translations
                    THEN ObjectCell(translations[model])
                    ELSE englishText
       IN AddColumns((ColumnName(model) :> value) @@ row, Tail(models),
                     translations, englishText)

\* the callback of csvData.map in handleTranslateCsv
TranslatedRow(row, maps, models) ==
  LET englishText == EnglishText(row)
  IN IF Truthy(englishText) /\ englishText.kind = "string"
        /\ Trim(englishText.str) \in DOMAIN maps
     THEN AddColumns(row, models, maps[Trim(englishText.str)], englishText)
     ELSE row

translatedCsv(data, maps, models) ==
  [ r \in 1..Len(data) |-> TranslatedRow(data[r], maps, models) ]

\* { sNo, english, translations }
MultiModelTranslationResult(sNo, english, translations) ==
  [sNo |-> sNo, english |-> english, translations |-> translations]

\* the TranslationResult translateTextWithMultipleModels stores when
\* translateText rejects: `Translation failed: ${error}`
FailedResult(model, error) ==
  TranslationResult([live |-> <<>>, mock |-> NoMock,
                     note |-> Note("failed", error.message)], model, 0)

ToText(str) == [body |-> str, pad |-> 0]

\* ------------------------------------------------------------ the exports
\* Array.prototype.join
RECURSIVE Join(_, _)
Join(strs, sep) ==
  IF strs = <<>> THEN <<>>
  ELSE IF Len(strs) = 1 THEN strs[1]
  ELSE strs[1] \o sep \o Join(Tail(strs), sep)

\* field.replace(/"/g, '""')
RECURSIVE DoubleQuotes(_)
DoubleQuotes(s) ==
  IF s = <<>> THEN <<>>
  ELSE (IF Head(s) = "\"" THEN << "\"", "\"" >> ELSE << Head(s) >>)
       \o DoubleQuotes(Tail(s))

\* a file's text, or the TypeError the export threw instead
Content(str) == [threw |-> FALSE, str |-> str]

TypeError == [threw |-> TRUE, str |-> <<>>]

\* escapeCsvField(field): an object has no `includes` method, so calling
\* field.includes(',') on it throws a TypeError
escapeCsvField(field) ==
  IF field.kind # "string" THEN TypeError
  ELSE IF \/ Includes(field.str, << "," >>)
          \/ Includes(field.str, << "\"" >>)
          \/ Includes(field.str, << "\n" >>)
       THEN Content(<< "\"" >> \o DoubleQuotes(field.str) \o << "\"" >>)
       ELSE Content(field.str)

\* value || ''
OrEmpty(cell) == IF Truthy(cell) THEN cell ELSE StringCell(<<>>)

\* the fields of `cells`, escaped and joined with commas
Line(cells) ==
  LET fields == [ k \in 1..Len(cells) |-> escapeCsvField(OrEmpty(cells[k])) ]
  IN IF \E k \in 1..Len(cells) : fields[k].threw THEN TypeError
     ELSE Content(Join([ k \in 1..Len(cells) |-> fields[k].str ], << "," >>))

\* the lines `rows` (sequences of cells) make, below the header line
Lines(headers, rows) ==
  LET lines == [ r \in 1..Len(rows) |-> Line(rows[r]) ]
  IN IF \E r \in 1..Len(rows) : lines[r].threw THEN TypeError
     ELSE Content(Join(<< Join(headers, << "," >>) >>
                         \o [ r \in 1..Len(rows) |-> lines[r].str ],
                       << "\n" >>))

generateCsvFromData(data, headers) ==
  Lines(headers,
        [ r \in 1..Len(data) |->
            [ k \in 1..Len(headers) |-> Get(data[r], headers[k]) ] ])

\* the headers downloadTranslatedCsv writes
newHeaders(headers, models) ==
  SelectSeq(headers,
            LAMBDA h : ~Includes(ToLowerCase(h), <<"s","p","a","n","i","s","h">>))
    \o [ k \in 1..Len(models) |-> ColumnName(models[k]) ]

\* translations[model]
Translation(translations, model) ==
  IF model \in DOMAIN translations THEN ObjectCell(translations[model])
  ELSE Undefined

\* Number.prototype.toString of a natural number
RECURSIVE NumberToString(_)
NumberToString(n) ==
  LET digit == << "0","1","2","3","4","5","6","7","8","9" >>[(n % 10) + 1]
  IN IF n < 10 THEN << digit >> ELSE Append(NumberToString(n \div 10), digit)

generateMultiModelCsv(results, models) ==
  Lines(<< <<"S",".","n","o">>, English >>
          \o [ k \in 1..Len(models) |-> ColumnName(models[k]) ],
        [ r \in 1..Len(results) |->
            << StringCell(NumberToString(results[r].sNo)), StringCell(results[r].english) >>
              \o [ k \in 1..Len(models) |->
                     Translation(results[r].translations, models[k]) ] ])

\* --------------------------------------------------------------- handlers
\* a checkbox of the model list is clicked
HandleModelSelection ==
  /\ \E model \in ToggledModels :
       LET checked == \A k \in 1..Len(selectedModels) : selectedModels[k] # model
       IN selectedModels' =
            IF checked THEN Append(selectedModels, model)
            ELSE SelectSeq(selectedModels, LAMBDA m : m # model)
  /\ UNCHANGED << uploadedFile, csvData, csvHeaders, isTranslating,
                  translationProgress, translationResults, translatedCsvData,
                  currentTranslatingText, reading, batch >>
  /\ downloaded' = NoDownload
  /\ UNCHANGED << svcVars, appVars >>

\* a file is chosen with the Choose CSV File button
HandleFileUploadOf(files) ==
  /\ ~isTranslating
  /\ Len(reading) < MaxReading
  /\ \E file \in files :
       IF ~EndsWith(file.name, DotCsv)
       THEN UNCHANGED << uploadedFile, reading >>
       ELSE /\ uploadedFile' = file
            /\ reading' = Append(reading, file)
  /\ UNCHANGED << selectedModels, csvData, csvHeaders, isTranslating,
                  translationProgress, translationResults, translatedCsvData,
                  currentTranslatingText, batch >>
  /\ downloaded' = NoDownload
  /\ UNCHANGED << svcVars, appVars >>

HandleFileUpload == HandleFileUploadOf(Files)

\* reader.onload of a pending FileReader
ReaderOnload ==
  /\ \E k \in 1..Len(reading) :
       LET parsed == parseCsv(reading[k].content)
       IN /\ reading' = SubSeq(reading, 1, k - 1) \o SubSeq(reading, k + 1, Len(reading))
          /\ IF parsed.ok
             THEN /\ csvData' = parsed.data
                  /\ csvHeaders' = parsed.headers
                  /\ UNCHANGED uploadedFile
             ELSE /\ uploadedFile' = NoFile
                  /\ csvData' = <<>>
                  /\ csvHeaders' = <<>>
  /\ UNCHANGED << selectedModels, isTranslating, translationProgress,
                  translationResults, translatedCsvData,
                  currentTranslatingText, batch >>
  /\ downloaded' = NoDownload
  /\ UNCHANGED << svcVars, appVars >>

\* the Reset button
resetTranslation ==
  /\ Len(csvData) > 0
  /\ ~isTranslating
  /\ uploadedFile' = NoFile
  /\ csvData' = <<>>
  /\ csvHeaders' = <<>>
  /\ translationResults' = <<>>
  /\ translatedCsvData' = <<>>
  /\ translationProgress' = Progress(0, 1)
  /\ currentTranslatingText' = <<>>
  /\ UNCHANGED << selectedModels, isTranslating, reading, batch >>
  /\ downloaded' = NoDownload
  /\ UNCHANGED << svcVars, appVars >>

\* the Start Translation button: handleTranslateCsv up to its first call
\* of translateText
handleTranslateCsv ==
  /\ Len(csvData) > 0
  /\ ~isTranslating
  /\ IF Len(selectedModels) = 0
     THEN UNCHANGED << isTranslating, translationProgress, translationResults,
                       currentTranslatingText, batch >>
     ELSE LET uniqueTexts == UniqueTexts(extractTextFromCsv(csvData))
          IN /\ translationProgress' = Progress(0, 1)
             /\ translationResults' = <<>>
             /\ IF Len(uniqueTexts) = 0
                THEN /\ isTranslating' = FALSE
                     /\ currentTranslatingText' = <<>>
                     /\ batch' = NoBatch
                ELSE /\ isTranslating' = TRUE
                     /\ currentTranslatingText' = uniqueTexts[1]
                     /\ batch' = Batch("call", csvData, selectedModels,
                                       uniqueTexts, 1, 1, <<>>, <<>>, <<>>, <<>>)
  /\ UNCHANGED << selectedModels, uploadedFile, csvData, csvHeaders,
                  translatedCsvData, reading >>
  /\ downloaded' = NoDownload
  /\ UNCHANGED << svcVars, appVars >>

BatchTranslateTextMutant ==
  /\ batch.stage = "call"
  /\ TranslateTextCall(ToText(batch.uniqueTexts[batch.i]),
                       batch.selectedModels[batch.j])
  /\ batch' = [batch EXCEPT
                 !.stage = "wait",
                 !.log = @ \o [ k \in 1..(Len(batch.selectedModels) - batch.j + 1) |->
                                 << batch.uniqueTexts[batch.i],
                                    batch.selectedModels[batch.j + k - 1] >> ]]
  /\ UNCHANGED << selectedModels, uploadedFile, csvData, csvHeaders,
                  isTranslating, translationProgress, translationResults,
                  translatedCsvData, currentTranslatingText, reading >>
  /\ downloaded' = NoDownload
  /\ UNCHANGED appVars

\* translateTextWithMultipleModels calls translateText for the next model
BatchTranslateText ==
  /\ batch.stage = "call"
  /\ TranslateTextCall(ToText(batch.uniqueTexts[batch.i]),
                       batch.selectedModels[batch.j])
  /\ batch' = [batch EXCEPT
                 !.stage = "wait",
                 !.log = Append(@, << batch.uniqueTexts[batch.i],
                                      batch.selectedModels[batch.j] >>)]
  /\ UNCHANGED << selectedModels, uploadedFile, csvData, csvHeaders,
                  isTranslating, translationProgress, translationResults,
                  translatedCsvData, currentTranslatingText, reading >>
  /\ downloaded' = NoDownload
  /\ UNCHANGED appVars

\* the request of the call in progress settles
BatchCreateSettles ==
  /\ batch.stage = "wait"
  /\ CreateSettlesAs(CsvChatOutcomes, FALSE)
  /\ downloaded' = NoDownload
  /\ UNCHANGED appVars
  /\ UNCHANGED << selectedModels, uploadedFile, csvData, csvHeaders,
                  isTranslating, translationProgress, translationResults,
                  translatedCsvData, currentTranslatingText, reading, batch >>

\* translateText has settled: translateTextWithMultipleModels stores the
\* result and goes on with the next model, or returns to
\* handleTranslateCsv, which goes on with the next text or finishes
BatchCollect ==
  /\ batch.stage = "wait"
  /\ Returns
  /\ LET text == batch.uniqueTexts[batch.i]
         model == batch.selectedModels[batch.j]
         translations ==
           (model :> (IF thrown = NoError THEN result
                      ELSE FailedResult(model, thrown)))
           @@ batch.translations
         results ==
           Append(batch.results,
                  MultiModelTranslationResult(batch.i, text, translations))
         maps == (text :> translations) @@ batch.translationMaps
     IN IF batch.j < Len(batch.selectedModels)
        THEN /\ batch' = [batch EXCEPT !.stage = "call", !.j = @ + 1,
                                       !.translations = translations]
             /\ UNCHANGED << isTranslating, translationProgress,
                             translationResults, translatedCsvData,
                             currentTranslatingText >>
        ELSE /\ translationResults' = results
             /\ translationProgress' = Progress(batch.i * 100, Len(batch.uniqueTexts))
             /\ IF batch.i < Len(batch.uniqueTexts)
                THEN /\ batch' = [batch EXCEPT
                                    !.stage = "call", !.i = @ + 1, !.j = 1,
                                    !.translations = <<>>,
                                    !.results = results,
                                    !.translationMaps = maps]
                     /\ currentTranslatingText' = batch.uniqueTexts[batch.i + 1]
                     /\ UNCHANGED << isTranslating, translatedCsvData >>
                ELSE /\ translatedCsvData' =
                          translatedCsv(batch.csvData, maps, batch.selectedModels)
                     /\ currentTranslatingText' = <<>>
                     /\ isTranslating' = FALSE
                     /\ batch' = NoBatch
  /\ UNCHANGED << selectedModels, uploadedFile, csvData, csvHeaders, reading >>
  /\ downloaded' = NoDownload
  /\ UNCHANGED appVars

\* the Download Updated CSV button
downloadTranslatedCsv ==
  /\ Len(translationResults) > 0
  /\ Len(translatedCsvData) > 0
  /\ downloaded' =
       Outcome("csv", generateCsvFromData(translatedCsvData,
                                          newHeaders(csvHeaders, selectedModels)))
  /\ UNCHANGED << selectedModels, uploadedFile, csvData, csvHeaders,
                  isTranslating, translationProgress, translationResults,
                  translatedCsvData, currentTranslatingText, reading, batch >>
  /\ UNCHANGED << svcVars, appVars >>

\* the Download Translation Report button
downloadTranslationReport ==
  /\ Len(translationResults) > 0
  /\ downloaded' =
       Outcome("report", generateMultiModelCsv(translationResults, selectedModels))
  /\ UNCHANGED << selectedModels, uploadedFile, csvData, csvHeaders,
                  isTranslating, translationProgress, translationResults,
                  translatedCsvData, currentTranslatingText, reading, batch >>
  /\ UNCHANGED << svcVars, appVars >>

\* ------------------------------------------------------- status methods
isConfigured == config.set

getConfigurationStatus ==
  IF isConfigured THEN "Azure AI Foundry configured and ready"
  ELSE "Azure AI Foundry not configured - using mock responses"

\* ===================================================================== App
\* the models of the radio group (the keys of App's modelLabels)
AppModels ==
  { "gpt-4.1", "gpt-5-chat", "gpt-5-mini", "gpt-5-nano", "phi-4",
    "mistral-small-2503", "azure-translate" }

\* the state of App
App(mode, text, model, translating, err, res) ==
  [mode |-> mode, inputText |-> text, selectedModel |-> model,
   isTranslating |-> translating, error |-> err, translationResult |-> res]

\* App as its useState calls leave it, once the user has picked `mode`
AppInit(mode) == App(mode, <<>>, "gpt-4.1", FALSE, "", NoResult)

isSendEnabledMutant ==
  /\ Len(app.inputText) > 0
  /\ app.selectedModel # ""
  /\ ~app.isTranslating

isSendEnabled ==
  /\ Len(Trim(app.inputText)) > 0
  /\ app.selectedModel # ""
  /\ ~app.isTranslating

\* performTranslation(text, model) up to its await
performTranslation(text, model) ==
  /\ app' = [app EXCEPT !.isTranslating = TRUE, !.error = ""]
  /\ TranslateTextCall(ToText(text), model)

performTranslationNoFinally ==
  /\ pc = "done"
  /\ app' = [app EXCEPT
               !.translationResult = IF thrown = NoError THEN result ELSE @,
               !.error = IF thrown = NoError THEN @
                         ELSE "Translation failed. Please try again."]
  /\ Returns

\* performTranslation after its await: try, catch and finally
performTranslationResumes ==
  /\ pc = "done"
  /\ app' = [app EXCEPT
               !.translationResult = IF thrown = NoError THEN result ELSE @,
               !.error = IF thrown = NoError THEN @
                         ELSE "Translation failed. Please try again.",
               !.isTranslating = FALSE]
  /\ Returns

\* the Translate button
handleSendTranslation ==
  /\ isSendEnabled
  /\ performTranslation(app.inputText, app.selectedModel)

\* the Try Again button, rendered while error is set
TryAgain ==
  /\ app.error # ""
  /\ ~app.isTranslating
  /\ performTranslation(app.inputText, app.selectedModel)

\* ------------------------------------------------ the CSV translator
InitCsv ==
  /\ ServiceInit(CsvEnvs, MaxClock)
  /\ CsvInit
  /\ app = AppInit("csv")

NextCsv ==
  \/ HandleModelSelection
  \/ HandleFileUpload
  \/ ReaderOnload
  \/ resetTranslation
  \/ handleTranslateCsv
  \/ BatchTranslateText
  \/ BatchCreateSettles
  \/ BatchCollect

SpecCsv == InitCsv /\ [][NextCsv]_vars

\* ------------------------------- the CSV translator with its downloads
NextExport ==
  \/ NextCsv
  \/ downloadTranslatedCsv
  \/ downloadTranslationReport

SpecExport == InitCsv /\ [][NextExport]_vars

\* ------------- the CSV translator given files with lower case headers
HandleHeaderFileUpload == HandleFileUploadOf(HeaderFiles)

NextHeaders ==
  \/ HandleModelSelection
  \/ HandleHeaderFileUpload
  \/ ReaderOnload
  \/ resetTranslation
  \/ handleTranslateCsv
  \/ BatchTranslateText
  \/ BatchCreateSettles
  \/ BatchCollect

SpecHeaders == InitCsv /\ [][NextHeaders]_vars


\* ------------------------------------------- the service called directly
Init ==
  /\ ServiceInit(Envs, 0)
  /\ CsvInit
  /\ app = AppInit("text")

TranslateText ==
  /\ \E text \in Texts, model \in TranslationModel : TranslateTextCall(text, model)
  /\ UNCHANGED << csvVars, appVars >>

FetchSettles ==
  /\ FetchSettlesAs(FetchOutcomes)
  /\ UNCHANGED << csvVars, appVars >>

CreateSettlesRetry ==
  /\ \E o \in ChatOutcomes, endTime \in now..MaxClock :
       /\ pc = "create"
       /\ reply' = Reply(o.kind, o.status)
       /\ IF o.kind \in { "status", "network" } /\ requests < 3
          THEN /\ requests' = requests + 1
               /\ now' = endTime
               /\ UNCHANGED << pc, result, thrown, lastError >>
          ELSE /\ Settle(cur, translateSingleChunk(o, cur.model), endTime, lastError)
               /\ UNCHANGED requests
       /\ UNCHANGED << env, config, azureTranslateConfig, cur, client, request >>
  /\ UNCHANGED << csvVars, appVars >>

CreateSettles ==
  /\ CreateSettlesAs(ChatOutcomes, FALSE)
  /\ UNCHANGED << csvVars, appVars >>

Return ==
  /\ Returns
  /\ UNCHANGED << csvVars, appVars >>

Next == TranslateText \/ FetchSettles \/ CreateSettles \/ Return

Spec == Init /\ [][Next]_vars

\* ------------------------------------- the clients the service creates
BlankEndpoint == << " ", " " >>

\* a foundry-style endpoint that names a port
FoundryPortEndpoint ==
  Https \o <<"p","1",".","s","e","r","v","i","c","e","s",".","a","i",".",
             "a","z","u","r","e",".","c","o","m",":","8","4","4","3","/","m","o","d","e","l","s">>

\* the environments the clients are created in: every kind of endpoint
\* value, with and without the two API keys, Azure Translate unset
ClientEnvs ==
  [ endpointRaw : EndpointInputs \cup { BlankEndpoint, FoundryPortEndpoint },
    apiKey : KeyInputs,
    gpt5ApiKey : { "", "key5" },
    trEndpoint : { "" }, trApiKey : { "" }, trRegion : { "" } ]

\* how the upstream answers these calls
ClientChatOutcomes ==
  { ChatOutcome("choices", 200, TRUE, Hola, "stop"),
    ChatOutcome("status", 404, FALSE, <<>>, "stop") }
  \cup { o \in ChatOutcomes : o.kind = "choices" }

\* the texts of these calls: one phrase of the gpt-4.1 dictionary, and
\* texts holding two phrases of one dictionary, the later entry first
ClientTexts == { Water, FoodYes, AboutStarted }

InitClient ==
  /\ ServiceInit(ClientEnvs, MaxClock)
  /\ CsvInit
  /\ app = AppInit("text")

ClientTranslateText ==
  /\ \E text \in ClientTexts, model \in TranslationModel :
       TranslateTextCall(ToText(text), model)
  /\ UNCHANGED << csvVars, appVars >>

ClientCreateSettles ==
  /\ CreateSettlesAs(ClientChatOutcomes, TRUE)
  /\ UNCHANGED << csvVars, appVars >>

ClientReturn ==
  /\ Returns
  /\ UNCHANGED << csvVars, appVars >>

NextClient == ClientTranslateText \/ ClientCreateSettles \/ ClientReturn

SpecClient == InitClient /\ [][NextClient]_vars

\* -------------------------------- the page: text mode and CSV mode
\* The user picks a mode on the fresh page and stays in it: in CSV mode
\* App renders the CsvTranslator, in text mode its own controls.
AppEnvs ==
  { [endpointRaw |-> <<>>, apiKey |-> "", gpt5ApiKey |-> "", trEndpoint |-> "",
     trApiKey |-> "", trRegion |-> ""],
    [endpointRaw |-> StandardEndpoint, apiKey |-> "key", gpt5ApiKey |-> "",
     trEndpoint |-> "key", trApiKey |-> "key", trRegion |-> "key"] }

\* what the user types into the textarea
AppTexts == { <<>>, << " ", " " >>, Water, << " " >> \o Water }

\* how the upstream answers in text mode
AppChatOutcomes == CsvChatOutcomes

AppFetchOutcomes ==
  { FetchOutcome("json", 200, "well", Hola),
    FetchOutcome("status", 401, "none", <<>>) }

InitUi ==
  /\ CsvInit
  /\ \/ ServiceInit(CsvEnvs, MaxClock) /\ app = AppInit("csv")
     \/ ServiceInit(AppEnvs, MaxClock) /\ app = AppInit("text")

\* onChange of the textarea
setInputText ==
  /\ app.mode = "text"
  /\ \E text \in AppTexts : app' = [app EXCEPT !.inputText = text]
  /\ UNCHANGED << svcVars, csvVars >>

\* onValueChange of the radio group
setSelectedModel ==
  /\ app.mode = "text"
  /\ \E model \in AppModels : app' = [app EXCEPT !.selectedModel = model]
  /\ UNCHANGED << svcVars, csvVars >>

\* a click on one of the two buttons that start a translation
ButtonClick ==
  /\ app.mode = "text"
  /\ \E button \in { "Translate", "Try Again" } :
       IF button = "Translate" THEN handleSendTranslation ELSE TryAgain
  /\ UNCHANGED csvVars

AppFetchSettles ==
  /\ app.mode = "text"
  /\ FetchSettlesAs(AppFetchOutcomes)
  /\ UNCHANGED << csvVars, appVars >>

AppCreateSettles ==
  /\ app.mode = "text"
  /\ CreateSettlesAs(AppChatOutcomes, FALSE)
  /\ UNCHANGED << csvVars, appVars >>

AppResumes ==
  /\ app.mode = "text"
  /\ performTranslationResumes
  /\ UNCHANGED csvVars

CsvStep ==
  /\ app.mode = "csv"
  /\ NextHeaders

NextUi ==
  \/ setInputText
  \/ setSelectedModel
  \/ ButtonClick
  \/ AppFetchSettles
  \/ AppCreateSettles
  \/ AppResumes
  \/ CsvStep

SpecUi == InitUi /\ [][NextUi]_vars

\* the page when every translation call returns: a pending request
\* settles, and a continuation that is ready to run is run by the event
\* loop
SpecUiFair ==
  /\ SpecUi
  /\ WF_vars(AppFetchSettles)
  /\ WF_vars(AppCreateSettles)
  /\ WF_vars(AppResumes)
  /\ WF_vars(BatchTranslateText)
  /\ WF_vars(BatchCreateSettles)
  /\ WF_vars(BatchCollect)

\* ================================================================ claims
OpenAIAbsent == env.endpointRaw = <<>> \/ env.apiKey = ""

TranslateAbsent == env.trEndpoint = "" \/ env.trApiKey = "" \/ env.trRegion = ""

\* the backend of `model` is not configured
Unconfigured(model) ==
  IF model = "azure-translate" THEN TranslateAbsent ELSE OpenAIAbsent

\* the call in progress is an oversized input on a constrained model that
\* reaches the pre-check
FailsPreCheck ==
  /\ ~OpenAIAbsent
  /\ cur.model \in { "gpt-5-mini", "gpt-5-nano", "grok-3-mini" }
  /\ 4 * TokenLimit < TextLength(cur.text)

FailedReply == reply.kind \in { "status", "network" }

\* C1: every translateText call that passes the oversized-input pre-check
\* resolves with a TranslationResult for the requested model whose latency
\* is an integer >= 0, and rejects with no error, whatever the model, the
\* text, the configuration and the upstream outcome.
C1_AlwaysResolves ==
  (pc = "done" /\ ~FailsPreCheck) =>
    /\ thrown = NoError
    /\ result.model = cur.model
    /\ result.latency \in Nat

C1_Witness ==
  /\ pc = "done"
  /\ FailedReply
  /\ result.model = cur.model
  /\ result.latency > 0

\* C2: with OpenAI configured, a call on a constrained model whose
\* estimated token count exceeds 2500 settles without a network request;
\* one whose estimate is exactly 2500 is dispatched.
C2_PreCheck ==
  (pc # "idle" /\ ~OpenAIAbsent
     /\ cur.model \in { "gpt-5-mini", "gpt-5-nano", "grok-3-mini" }) =>
    /\ (4 * TokenLimit < TextLength(cur.text) => requests = 0 /\ pc = "done")
    /\ (TextLength(cur.text) \in (4 * TokenLimit - 3)..(4 * TokenLimit) =>
          requests = 1)

C2_Witness ==
  /\ pc = "done"
  /\ FailsPreCheck
  /\ requests = 0
  /\ TextLength(cur.text) = 4 * TokenLimit + 1

\* C3: an oversized input on a constrained model fails the translateText
\* call outright: the error reaches the caller and no TranslationResult is
\* returned.
C3_OversizedFailsOutright ==
  (pc = "done" /\ FailsPreCheck) =>
    /\ thrown # NoError
    /\ result = NoResult

\* C4: a translateText call to a backend whose configuration is absent
\* (OpenAI endpoint or key for a chat model; Azure Translate endpoint, key
\* or region for azure-translate) returns the mock output for (text,
\* model) unannotated, issues no network request and leaves lastError as
\* it was.
C4_UnconfiguredIsMock ==
  [][ (pc = "idle" /\ pc' # "idle" /\ Unconfigured(cur'.model)) =>
        /\ pc' = "done"
        /\ requests' = 0
        /\ result'.text = MockText(mockTranslation(cur'.text, cur'.model), NoNote)
        /\ thrown' = NoError
        /\ lastError' = lastError ]_vars

C4_Witness ==
  /\ pc = "done"
  /\ Unconfigured(cur.model)
  /\ cur.model = "azure-translate"
  /\ env.trEndpoint # "" /\ env.trApiKey # ""
  /\ result.text.mock = mockTranslation(cur.text, cur.model)
  /\ requests = 0

AuthenticationFailure ==
  { "Authentication failed - check your API key",
    "Authentication failed - check your Azure Translate API key" }

AccessDenied == { "Access denied - check your Azure Translate subscription" }

RateLimited == { "Rate limit exceeded - please wait and try again" }

\* C5: for every model, when the upstream call fails with HTTP 401 the
\* result's text is the mock output for (text, model) followed by a note
\* stating the authentication failure, and its latency is >= 0.
C5_AuthenticationNote ==
  (pc = "done" /\ reply = Reply("status", 401)) =>
    /\ result.text.mock = mockTranslation(cur.text, cur.model)
    /\ result.text.note.reason.msg \in AuthenticationFailure
    /\ result.latency >= 0

\* C6: on both call shapes a failed call is classified by HTTP status (401
\* authentication failure, 403 access denied, 429 rate limit exceeded, any
\* other status kept raw), and lastError and the fallback note carry the
\* classified description.
C6_Classification ==
  (pc = "done" /\ reply.kind = "status") =>
    /\ CASE reply.status = 401 -> lastError.msg \in AuthenticationFailure
         [] reply.status = 403 -> lastError.msg \in AccessDenied
         [] reply.status = 429 -> lastError.msg \in RateLimited
         [] OTHER -> lastError.status = reply.status
    /\ result.text.note.reason = lastError

\* C7 as stated: every result whose text is mock output carries an
\* annotation, whether configuration is missing or the call failed.
C7_EveryMockAnnotated ==
  (pc = "done" /\ result.text.mock # NoMock) => result.text.note # NoNote

\* C7 amended: a result whose text is mock output because the call failed
\* carries an appended note: the fixed demo note for gpt-4.1, otherwise
\* the error description held in lastError; a result mocked because the
\* configuration is missing carries no annotation.
C7_FailedMockAnnotated ==
  (pc = "done" /\ result.text.mock # NoMock) =>
    IF Unconfigured(cur.model)
    THEN result.text.note = NoNote
    ELSE /\ result.text.note # NoNote
         /\ lastError # Null
         /\ IF cur.model = "gpt-4.1"
            THEN result.text.note = Note("demo", Null)
            ELSE /\ result.text.note.kind \in { "api", "azure" }
                 /\ result.text.note.reason = lastError

C7_Witness ==
  /\ pc = "done"
  /\ result.text.mock # NoMock
  /\ result.text.note.kind = "api"
  /\ FailedReply

BatchFinishes == isTranslating /\ ~isTranslating'

\* the position at which `t` first occurs in `texts`
FirstSeen(texts, t) ==
  CHOOSE k \in 1..Len(texts) :
    texts[k] = t /\ \A l \in 1..(k - 1) : texts[l] # t

\* the Spanish-{ModelLabel} columns of the models `models`
SpanishColumns(models) == { ColumnName(models[k]) : k \in 1..Len(models) }

\* the row holds an English text the batch translates
Translatable(row) ==
  LET englishText == EnglishText(row)
  IN /\ englishText.kind = "string"
     /\ Len(Trim(englishText.str)) > 0
     /\ HasLetter(englishText.str)

\* C9: when a batch finishes it has called translateText exactly once for
\* each pair of a distinct text of the CSV and a selected model, u * m
\* calls for u distinct texts and m models, and the calls visit the
\* distinct texts in the order in which they first occur.
C9_OncePerTextAndModel ==
  [][ BatchFinishes =>
        LET texts == extractTextFromCsv(batch.csvData)
            distinct == { texts[k] : k \in 1..Len(texts) }
            models == batch.selectedModels
            log == batch.log
        IN /\ Len(log) = Cardinality(distinct) * Len(models)
           /\ \A t \in distinct, k \in 1..Len(models) :
                Cardinality({ p \in 1..Len(log) : log[p] = << t, models[k] >> }) = 1
           /\ \A p, q \in 1..Len(log) :
                p < q => FirstSeen(texts, log[p][1]) <= FirstSeen(texts, log[q][1])
    ]_vars

C9_Witness ==
  /\ batch.stage = "wait"
  /\ pc = "done"
  /\ batch.i = Len(batch.uniqueTexts)
  /\ batch.j = Len(batch.selectedModels)
  /\ Len(extractTextFromCsv(batch.csvData)) = 3
  /\ Len(batch.selectedModels) = 2
  /\ Len(batch.log) = 4

\* C10 as stated: when a batch finishes, the translated CSV has one row
\* per row of the CSV in the same order, every original column of every
\* row holds what it held, and rows with the same English text hold the
\* same value in the column of every selected model.
C10_OriginalColumnsUnchanged ==
  [][ BatchFinishes =>
        LET data == batch.csvData
            out == translatedCsvData'
            columns == SpanishColumns(batch.selectedModels)
        IN /\ Len(out) = Len(data)
           /\ \A r \in 1..Len(data) :
                \A h \in DOMAIN data[r] :
                  h \in DOMAIN out[r] /\ out[r][h] = data[r][h]
           /\ \A r1, r2 \in 1..Len(data) :
                EnglishText(data[r1]) = EnglishText(data[r2]) =>
                  \A c \in columns : Get(out[r1], c) = Get(out[r2], c)
    ]_vars

\* C10: when a batch finishes, the translated CSV has one row per row of
\* the CSV in the same order; a row without translatable English text is
\* unchanged; in a translated row every original column other than a
\* Spanish-{ModelLabel} column of a selected model holds what it held and
\* the column of each selected model holds that model's result; rows with
\* the same English text hold the same results.
C10_RowsReassembled ==
  [][ BatchFinishes =>
        LET data == batch.csvData
            out == translatedCsvData'
            models == batch.selectedModels
            columns == SpanishColumns(models)
        IN /\ Len(out) = Len(data)
           /\ \A r \in 1..Len(data) :
                IF ~Translatable(data[r]) THEN out[r] = data[r]
                ELSE /\ \A h \in DOMAIN data[r] \ columns :
                          h \in DOMAIN out[r] /\ out[r][h] = data[r][h]
                     /\ \A k \in 1..Len(models) :
                          /\ Get(out[r], ColumnName(models[k])).kind = "object"
                          /\ Get(out[r], ColumnName(models[k])).obj.model = models[k]
           /\ \A r1, r2 \in 1..Len(data) :
                /\ Translatable(data[r1])
                /\ EnglishText(data[r1]) = EnglishText(data[r2])
                => \A c \in columns : Get(out[r1], c) = Get(out[r2], c)
    ]_vars

C10_Witness ==
  /\ ~isTranslating
  /\ batch = NoBatch
  /\ Len(translatedCsvData) = 3
  /\ Len(selectedModels) = 2
  /\ \A k \in 1..Len(selectedModels) :
       /\ Get(translatedCsvData[1], ColumnName(selectedModels[k])).kind = "object"
       /\ Get(translatedCsvData[1], ColumnName(selectedModels[k])) =
            Get(translatedCsvData[2], ColumnName(selectedModels[k]))
       /\ Get(translatedCsvData[3], ColumnName(selectedModels[k])).kind = "object"

\* the translateText calls of the running batch whose result the batch has
\* stored
Completed ==
  Len(batch.results) * Len(batch.selectedModels)
    + Cardinality(DOMAIN batch.translations)

\* the translateText calls the running batch has made and not yet awaited
InFlight == Len(batch.log) - Completed

\* C11: a batch has at most one translateText call outstanding; a request
\* on the network during a batch belongs to the last call the batch made,
\* and the batch makes its next call only when every earlier call has
\* completed and its result is stored.
C11_OneCallAtATime ==
  /\ InFlight \in { 0, 1 }
  /\ (isTranslating /\ pc \in { "create", "fetch" }) =>
       /\ InFlight = 1
       /\ requests = 1
       /\ << cur.text.body, cur.model >> = batch.log[Len(batch.log)]
  /\ batch.stage = "call" => (InFlight = 0 /\ pc = "idle")

C11_Witness ==
  /\ isTranslating
  /\ pc = "create"
  /\ Len(batch.log) = 3
  /\ Completed = 2
  /\ batch.i = 2

\* progress p is at most progress q
AtMost(p, q) == p.num * q.den <= q.num * p.den

\* C12: from the start of a batch to its end the progress value never
\* decreases, it is the share of the unique texts processed so far, and
\* on the step that finishes the batch it is exactly 100, whether the
\* translations came from the upstream or from the fallback after a
\* failure.
C12_ProgressMonotonic ==
  [][ isTranslating =>
        /\ AtMost(translationProgress, translationProgress')
        /\ translationProgress.num * Len(batch.uniqueTexts)
             = Len(batch.results) * 100 * translationProgress.den
        /\ ~isTranslating' =>
             translationProgress'.num = 100 * translationProgress'.den
    ]_vars

C12_Witness ==
  /\ ~isTranslating
  /\ Len(translationResults) = 2
  /\ translationProgress.num = 100 * translationProgress.den
  /\ "gpt-4.1" \in DOMAIN translationResults[2].translations
  /\ translationResults[2].translations["gpt-4.1"].text.note # NoNote
  /\ lastError = Message("Authentication failed - check your API key", 0, "", 0)

\* `seq` without its k-th element
RemoveAt(seq, k) == SubSeq(seq, 1, k - 1) \o SubSeq(seq, k + 1, Len(seq))

\* the column names of the first line of `content`, in lower case
HeaderNames(content) ==
  LET cells == Split(Split(Trim(content), "\n")[1], ",")
  IN { ToLowerCase(Trim(RemoveQuotes(cells[k]))) : k \in 1..Len(cells) }

\* the CSV is empty or lacks an S.No or an English column
InvalidCsv(content) ==
  \/ Trim(content) = <<>>
  \/ ToLowerCase(SNo) \notin HeaderNames(content)
  \/ ToLowerCase(English) \notin HeaderNames(content)

TranslatedWith(data) ==
  { data[r][h].obj.model :
      << r, h >> \in { x \in (1..Len(data)) \X UNION { DOMAIN data[r] : r \in 1..Len(data) } :
                       x[2] \in DOMAIN data[x[1]] /\ data[x[1]][x[2]].kind = "object" } }

\* the models the translation results hold a translation of
ResultsWith(results) ==
  UNION { DOMAIN results[r].translations : r \in 1..Len(results) }

\* `headers` has exactly one Spanish-{ModelLabel} column for each of
\* `models` and no other column of that kind
OneColumnPerModel(headers, models) ==
  /\ \A m \in models :
       Cardinality({ k \in 1..Len(headers) : headers[k] = ColumnName(m) }) = 1
  /\ \A k \in 1..Len(headers) :
       SubSeq(headers[k], 1, Len(SpanishDash)) = SpanishDash =>
         \E m \in models : headers[k] = ColumnName(m)

\* the cell is written to the file as a non-empty text
Written(cell) ==
  /\ ~escapeCsvField(OrEmpty(cell)).threw
  /\ escapeCsvField(OrEmpty(cell)).str # <<>>

\* C15: a click on a download button produces a file; the translated CSV
\* has exactly one Spanish-{ModelLabel} column for each model the batch
\* translated with, and in every translated row that column holds the
\* model's translation; so has the translation report for each result.
C15_ExportColumns ==
  /\ downloaded.name = "csv" =>
       LET models == TranslatedWith(translatedCsvData)
       IN /\ ~downloaded.threw
          /\ OneColumnPerModel(newHeaders(csvHeaders, selectedModels), models)
          /\ \A r \in 1..Len(translatedCsvData), m \in models :
               Translatable(translatedCsvData[r]) =>
                 Written(Get(translatedCsvData[r], ColumnName(m)))
  /\ downloaded.name = "report" =>
       LET models == ResultsWith(translationResults)
       IN /\ ~downloaded.threw
          /\ OneColumnPerModel([ k \in 1..Len(selectedModels) |->
                                   ColumnName(selectedModels[k]) ], models)
          /\ \A r \in 1..Len(translationResults), m \in models :
               Written(Translation(translationResults[r].translations, m))

\* C16: once the service is configured, every model id other than
\* azure-translate has a non-empty deployment name, a non-empty API
\* version and a resource name whose API key is non-empty, and the client
\* of every chat call in flight carries that non-empty key.
C16_RegistryComplete ==
  /\ config.set =>
       \A model \in TranslationModel \ { "azure-translate" } :
         /\ model \in DOMAIN config.deployments
         /\ config.deployments[model] # ""
         /\ model \in DOMAIN config.apiVersions
         /\ config.apiVersions[model] # ""
         /\ model \in DOMAIN config.resourceNames
         /\ config.resourceNames[model] \in DOMAIN config.resourceApiKeys
         /\ config.resourceApiKeys[config.resourceNames[model]] # ""
  /\ pc = "create" =>
       /\ client.apiKey # ""
       /\ client.apiKey = config.resourceApiKeys[config.resourceNames[cur.model]]
       /\ client.apiVersion # ""
       /\ request.model # ""

C16_Witness ==
  /\ pc = "create"
  /\ cur.model = "gpt-5-mini"
  /\ env.gpt5ApiKey = ""
  /\ client.apiKey = HardcodedGpt5ApiKey
  /\ request.model = "gpt-5-mini"

\* the base URL is not the empty string
NonEmptyURL(baseURL) ==
  baseURL.endpoint # <<>> \/ baseURL.path # "" \/ baseURL.deploymentName # ""

\* what the claim says of the endpoint value `raw`: the service is
\* configured, every chat model gets a non-empty base URL, and a value
\* that is not a parseable URL is, trimmed, the configured origin and the
\* origin of the client of a call on the configured resource
EndpointResolved(raw) ==
  /\ config.set
  /\ \A model \in ChatModels :
       /\ ~createClientForModel(config, model).threw
       /\ NonEmptyURL(createClientForModel(config, model).client.baseURL)
  /\ ~ParseUrl(raw).ok =>
       /\ config.endpoint = Trim(raw)
       /\ (pc = "create" /\ config.resourceNames[cur.model] = "aifoundry-eus-01") =>
            client.baseURL.endpoint = Trim(raw)

\* C17 as stated: for every non-empty endpoint value the service is
\* configured, every chat model has a non-empty base URL and an
\* unparseable value is used, trimmed, as the origin.
C17_AnyEndpointConfigures ==
  env.endpointRaw # <<>> => EndpointResolved(env.endpointRaw)

\* C17: the same for every non-empty endpoint value that comes with a
\* non-empty API key.
C17_EndpointWithKeyConfigures ==
  (env.endpointRaw # <<>> /\ env.apiKey # "") => EndpointResolved(env.endpointRaw)

C17_Witness ==
  /\ env.endpointRaw = BareEndpoint
  /\ pc = "create"
  /\ cur.model = "gpt-4.1"
  /\ client.baseURL = BaseURL(Trim(BareEndpoint), "gpt-4.1")

\* the models whose request carries max_tokens
MaxTokensModels == { "gpt-4.1", "mistral-small-2503", "mistral-small-2503-2" }

\* the models whose request carries max_completion_tokens
MaxCompletionTokensModels ==
  { "phi-4", "grok-3-mini", "gpt-5-chat", "gpt-5-mini", "gpt-5-nano" }

\* C18: the request passed to create() carries exactly one of max_tokens
\* and max_completion_tokens, max_tokens for gpt-4.1 and the mistral
\* models and max_completion_tokens for phi-4, grok-3-mini and the gpt-5
\* models, and it carries a temperature unless the model is gpt-5-mini or
\* gpt-5-nano.
C18_TokenLimitAndTemperature ==
  pc = "create" =>
    /\ cur.model \in MaxTokensModels \cup MaxCompletionTokensModels
    /\ (request.max_tokens # Absent) # (request.max_completion_tokens # Absent)
    /\ (request.max_tokens # Absent) <=> (cur.model \in MaxTokensModels)
    /\ (request.max_completion_tokens # Absent) <=>
         (cur.model \in MaxCompletionTokensModels)
    /\ (request.temperature = Absent) <=>
         (cur.model \in { "gpt-5-mini", "gpt-5-nano" })

C18_Witness ==
  /\ pc = "create"
  /\ cur.model = "gpt-5-nano"
  /\ request.max_completion_tokens = 1500
  /\ request.max_tokens = Absent
  /\ request.temperature = Absent

\* C19: when Azure Translate answers with a JSON body of the shape
\* [{translations:[{text: T}]}] the call returns exactly T; when the body
\* has any other shape the error is the invalid-response-format error and
\* the call returns the mock with a note carrying that error.
C19_ShapeOrInvalidFormat ==
  (pc = "done" /\ cur.model = "azure-translate" /\ reply.kind = "json") =>
    IF reply.body.shape = "well"
    THEN result.text = LiveText(reply.body.content)
    ELSE /\ lastError = Message("Invalid response format from Azure Translate", 0, "", 0)
         /\ result.text =
              MockText(mockTranslation(cur.text, "azure-translate"),
                       Note("azure", lastError))

\* the dictionary mockTranslation consults for `model`
DictionaryOf(model) ==
  IF model = "gpt-4.1" THEN Gpt41BasicTranslations ELSE AzureBasicTranslations

\* `mock` is what the claim says mockTranslation returns for (text, model)
MockAsClaimed(text, model, mock) ==
  LET lower == ToLowerCase(text.body)
      dict == DictionaryOf(model)
      known == { i \in 1..Len(dict) : Includes(lower, dict[i][1]) }
  IN /\ mock.label = ModelLabels(model)
     /\ IF model \in { "gpt-4.1", "azure-translate" } /\ known # {}
        THEN \E i \in known :
               /\ \A j \in 1..(i - 1) : j \notin known
               /\ mock.spanish = dict[i][2]
               /\ mock.tmpl = IF model = "gpt-4.1" THEN "hit-en" ELSE "hit-es"
        ELSE /\ mock.text = text
             /\ mock.tmpl \in { "direct", "demo", "bracket" }
     /\ (text = ToText(Water) /\ model = "gpt-4.1") =>
          mock = [tmpl |-> "hit-en", spanish |-> "agua", label |-> "GPT-4.1",
                  text |-> EmptyText]

\* C20: the mock text a call resolves with is determined by the text and
\* the model alone: for gpt-4.1 and azure-translate the canned translation
\* of the first dictionary phrase the lowercased text includes, labelled
\* with the model's display name, otherwise a placeholder holding the text
\* and the label ("water" with gpt-4.1 gives "agua (translated with
\* GPT-4.1)"); and a call that only produced the mock has changed neither
\* the configuration nor lastError.
C20_MockTranslation ==
  [][ (pc # "done" /\ pc' = "done" /\ result'.text.mock # NoMock) =>
        /\ MockAsClaimed(cur'.text, cur'.model, result'.text.mock)
        /\ result'.text.note = NoNote =>
             UNCHANGED << env, config, azureTranslateConfig, lastError >> ]_vars

C20_Witness ==
  /\ pc = "done"
  /\ cur.text = ToText(FoodYes)
  /\ cur.model = "gpt-4.1"
  /\ result.text.mock.spanish = "si"
  /\ result.text.note = NoNote

\* C21: lastError is the description of the most recent failed call and
\* null while no call has failed: a step changes lastError only when it
\* settles a call that failed, and then to a description of that failure.
C21_LastErrorIsLatestFailure ==
  [][ lastError' # lastError =>
        /\ pc' = "done"
        /\ result'.text.note # NoNote
        /\ lastError' # Null ]_vars

\* the extra fields of a request: which of top_p, frequency_penalty and
\* presence_penalty it carries
ExtraFields(req) ==
  { f \in { "top_p", "frequency_penalty", "presence_penalty" } : req[f] # Absent }

Penalties == { "frequency_penalty", "presence_penalty" }

\* the penalties a request carries are zero
ZeroPenalties(req) ==
  \A f \in ExtraFields(req) \cap Penalties : req[f] = 0

\* C22 as stated: the request carries top_p and both penalties, zero, for
\* gpt-4.1; no extra field for phi-4, grok-3-mini and the mistral models;
\* the two zero penalties and nothing else for gpt-5-mini and gpt-5-nano;
\* top_p and nothing else for gpt-5-chat.
C22_ExtraFieldsOfTable ==
  pc = "create" =>
    /\ ZeroPenalties(request)
    /\ ExtraFields(request) =
         CASE cur.model = "gpt-4.1" -> { "top_p" } \cup Penalties
           [] cur.model \in { "gpt-5-mini", "gpt-5-nano" } -> Penalties
           [] cur.model = "gpt-5-chat" -> { "top_p" }
           [] OTHER -> {}

\* C22: the same, except that the request for gpt-5-chat carries top_p
\* and the two zero penalties.
C22_ExtraFieldsSent ==
  pc = "create" =>
    /\ ZeroPenalties(request)
    /\ ExtraFields(request) =
         CASE cur.model = "gpt-4.1" -> { "top_p" } \cup Penalties
           [] cur.model \in { "gpt-5-mini", "gpt-5-nano" } -> Penalties
           [] cur.model = "gpt-5-chat" -> { "top_p" } \cup Penalties
           [] OTHER -> {}

C22_Witness ==
  /\ pc = "create"
  /\ cur.model = "gpt-5-chat"
  /\ request.top_p = 9
  /\ request.frequency_penalty = 0
  /\ request.presence_penalty = 0

\* the content of the first choice is missing, empty or whitespace only
BlankContent(choice) ==
  ~choice.hasContent \/ \A i \in 1..Len(choice.content) : IsSpace(choice.content[i])

\* C23: a chat answer whose first choice has missing, empty or
\* whitespace-only content is not returned as a translation: the call
\* resolves with the annotated mock, and the error is the content-filter
\* block when finish_reason is content_filter, the length truncation when
\* it is length, and the unknown empty response otherwise.
C23_BlankContentIsError ==
  (pc = "done" /\ reply.kind = "choices" /\ BlankContent(reply.choice)) =>
    /\ result.text.live = <<>>
    /\ result.text.mock = mockTranslation(cur.text, cur.model)
    /\ result.text.note # NoNote
    /\ lastError.msg =
         CASE reply.choice.finish = "content_filter" ->
                "Translation blocked by content filter"
           [] reply.choice.finish = "length" ->
                "Translation truncated due to length limit"
           [] OTHER -> "No translation received"

C23_Witness ==
  /\ pc = "done"
  /\ reply.choice = Choice(TRUE, <<" ", " ">>, "length")
  /\ lastError.msg = "Translation truncated due to length limit"
  /\ result.text.mock = mockTranslation(cur.text, cur.model)

\* the origin of the configured endpoint: that of the URL, and for a value
\* that is no URL the trimmed value
OriginOf(raw) ==
  IF ParseUrl(raw).ok THEN ParseUrl(raw).origin ELSE Trim(raw)

\* C24: the base URL of the client of a chat model is
\* {origin}/openai/deployments/{deploymentName}, the origin being the
\* hardcoded one for a model on vmuni-mecuvn70-eastus2 or aoai-learn-sk-01
\* and the origin of the configured endpoint for every other model,
\* foundry-style endpoints included.
C24_BaseURLOrigin ==
  pc = "create" =>
    client.baseURL =
      BaseURL(CASE ResourceNames(cur.model) = "vmuni-mecuvn70-eastus2" -> VmuniOrigin
                [] ResourceNames(cur.model) = "aoai-learn-sk-01" -> AoaiLearnOrigin
                [] OTHER -> OriginOf(env.endpointRaw),
              Deployments(cur.model))

\* a translateText call starts in this step
Dispatched == pc = "idle" /\ pc' # "idle"

\* C25: every translateText call the page starts has a text that is not
\* empty after trimming and a selected model: in text mode the call is
\* made only when the input is non-empty after trimming, a model is
\* selected and no translation is in progress, with that input and that
\* model; in CSV mode the text is non-empty and trimmed and the model is
\* one of the selected models.
C25_DispatchedRequests ==
  [][ Dispatched =>
        /\ Len(Trim(cur'.text.body)) > 0
        /\ cur'.model # ""
        /\ IF app.mode = "text"
           THEN /\ Len(Trim(app.inputText)) > 0
                /\ app.selectedModel \in AppModels
                /\ ~app.isTranslating
                /\ cur'.text = ToText(app.inputText)
                /\ cur'.model = app.selectedModel
           ELSE /\ cur'.text.body = Trim(cur'.text.body)
                /\ \E k \in 1..Len(batch.selectedModels) :
                     cur'.model = batch.selectedModels[k] ]_vars

C25_Witness ==
  /\ app.mode = "text"
  /\ app.isTranslating
  /\ pc = "create"
  /\ cur.text = ToText(<< " " >> \o Water)
  /\ cur.model = "phi-4"

\* C26: while getConfigurationStatus() returns 'Azure AI Foundry not
\* configured - using mock responses', no translateText call, for
\* azure-translate or any other model, has issued a network request.
C26_NotConfiguredNoRequest ==
  getConfigurationStatus = "Azure AI Foundry not configured - using mock responses"
    => requests = 0

\* C27: the results and the translated rows the component holds for
\* download come from the CSV that is loaded: every result is the
\* translation of an English text of csvData, and the translated rows are
\* the rows of csvData, one for one.
C27_ResultsOfLoadedFile ==
  /\ \A r \in 1..Len(translationResults) :
       \E k \in 1..Len(csvData) :
         /\ Translatable(csvData[k])
         /\ Trim(EnglishText(csvData[k]).str) = translationResults[r].english
  /\ translatedCsvData # <<>> =>
       /\ Len(translatedCsvData) = Len(csvData)
       /\ \A r \in 1..Len(csvData) :
            EnglishText(translatedCsvData[r]) = EnglishText(csvData[r])

\* the cells of `row` under a header that reads English in any letter case
EnglishCells(row) ==
  { row[h] : h \in { g \in DOMAIN row : ToLowerCase(g) = ToLowerCase(English) } }

\* C28: of the CSV that is loaded, every row whose English column, in
\* whatever letter case the header names it, holds a non-empty text with
\* a letter contributes that text, trimmed, to the texts a batch
\* translates.
C28_EnglishRowsTranslated ==
  \A k \in 1..Len(csvData) :
    \A cell \in EnglishCells(csvData[k]) :
      (cell.kind = "string" /\ Len(Trim(cell.str)) > 0 /\ HasLetter(cell.str)) =>
        \E t \in 1..Len(UniqueTexts(extractTextFromCsv(csvData))) :
          UniqueTexts(extractTextFromCsv(csvData))[t] = Trim(cell.str)

\* C29: when every translation call returns, a run of handleTranslateCsv
\* and a run of performTranslation end with isTranslating false: the page
\* and the CSV translator never stay in the translating state.
C29_TranslatingEnds ==
  /\ isTranslating ~> ~isTranslating
  /\ app.isTranslating ~> ~app.isTranslating

\* a batch has run to its end, some of its items answered by the mock
\* fallback, and the translator is no longer translating
C29_Witness ==
  /\ ~isTranslating
  /\ batch = NoBatch
  /\ Len(translatedCsvData) > 0
  /\ \E r \in 1..Len(translationResults) :
       \E m \in DOMAIN translationResults[r].translations :
         translationResults[r].translations[m].text.note # NoNote

\* C30: while a batch runs no other file is loaded and nothing is reset,
\* so the loaded file and its rows stay as they are, and no second batch
\* starts, so the rows and texts the running batch iterates over stay as
\* they were when it started.
C30_BatchUndisturbed ==
  [][ isTranslating =>
        /\ UNCHANGED << uploadedFile, csvData, csvHeaders >>
        /\ isTranslating' =>
             /\ batch'.csvData = batch.csvData
             /\ batch'.uniqueTexts = batch.uniqueTexts
             /\ batch'.selectedModels = batch.selectedModels ]_vars

====
